---------------------------- MODULE Spec2Model ----------------------------
(***************************************************************************)
(* Model of the personalization data pipeline of diet_recommendation:      *)
(*   - RecommendationEngine._generate_meal_combinations and its strategies *)
(*     (src/modules/recommendation_engine.py), specification SpecGen;      *)
(*   - EfficientDataProcessor.batch_process_user_data and the caches       *)
(*     (src/modules/efficient_data_processing.py), SpecBatch and SpecTally;*)
(*   - FastTrainingPipeline background training (same file), Spec,         *)
(*     FairSpec and SpecConc.                                              *)
(*                                                                         *)
(* Numbers are scaled to integers: personalization_score, nutrition_score  *)
(* and satisfaction_score are kept times 10 (1.0 -> 10, 4.0 -> 40), the    *)
(* ranking score times 100.  Food names are written in English; the source *)
(* uses the Chinese names given beside each table.                         *)
(***************************************************************************)
EXTENDS Integers, Sequences, FiniteSets, TLC

VARIABLES
    \* ---- RecommendationEngine (SpecGen)
    meals,              \* user_data.meals, as get_user_data returns them
    meal_type,          \* the meal type of the last request ("none" before it)
    recommendations,    \* the list _generate_meal_combinations returned
    gen_path,           \* "none" | "normal" | "exception": the path it took
    repeated,           \* whether the last request had the arguments of the one before
    template_ran,       \* whether the last request ran the template strategy
    \* ---- EfficientDataProcessor: the caches
    food_frequency,     \* dict food -> count, as an insertion-ordered list of pairs
    user_preferences,   \* dict user_id -> preference_analysis
    nutrition_patterns, \* dict user_id -> {avg_calories, avg_satisfaction, food_diversity}
    cache_lock,         \* "free", or who holds self.cache_lock
    saved_files,        \* the three .pkl files: the caches as last saved, and whether
                        \* the last _save_precomputed_data failed (its error log line)
    \* ---- EfficientDataProcessor: one batch_process_user_data call
    batch_pc,           \* "idle" | "collect" | "merge_prefs" | "merge_nutrition" | "return" | "done" | "raised"
    user_ids,           \* the argument
    futures,            \* per submitted task: its status and outcome
    results,            \* the local dict results
    returned,           \* the dict the call returned
    batches_run,        \* number of batch calls begun
    \* ---- get_popular_foods and the tally's history
    merged_total,       \* per food: the loaded count plus everything merged since
    popular,            \* the list the last get_popular_foods returned
    popular_limit,      \* its argument (-1 before the first call)
    \* ---- FastTrainingPipeline
    models,             \* self.models: <<>> or <<the 'recommendation' model>>
    background_thread,  \* self._background_thread: 0 (None) or a thread id
    stop_event,         \* self._stop_event
    loop_pc,            \* per thread: where its _loop is
    provider,           \* per thread: whether its closure has a user_ids_provider
    wait_left,          \* per thread: what is left of its inter-cycle wait
    pass_ids,           \* per thread: the user ids of the pass in flight
    pass_results,       \* per thread: the batch results of the pass in flight
    provided,           \* per thread: what the provider did in the iteration: raised, or its list
    next_tid,           \* the id the next Thread object gets
    caller_pc,          \* per client thread: where it is in start/stop
    last_call,          \* outcome of the last API call that returned
    prev_call,          \* and of the one before it
    ever_trained,       \* whether a training pass has completed on this pipeline
    \* ---- foreground calls on the pipeline and the processor
    train_calls,        \* number of train_recommendation_model calls returned
    train_results,      \* the batch results of the last of them
    train_returned,     \* <<>> or <<the model it returned>>
    predict_outcome,    \* last predict_recommendations: "none", "returned", "raised"
    predict_trained,    \* whether a pass had completed when it was called
    predictions,        \* the list it returned
    predict_user,       \* its user id
    export_outcome,     \* last export_analysis_report: "none", "returned", "raised"
    export_user,        \* its user id
    report_files        \* the user ids a report file was written for

genVars   == <<meals, meal_type, recommendations, gen_path, repeated, template_ran>>
cacheVars == <<food_frequency, user_preferences, nutrition_patterns, cache_lock, saved_files>>
batchVars == <<batch_pc, user_ids, futures, results, returned, batches_run>>
tallyVars == <<merged_total, popular, popular_limit>>

bgVars    == <<models, background_thread, stop_event, loop_pc, provider, wait_left, pass_ids, pass_results, provided,
               next_tid, caller_pc, last_call, prev_call, ever_trained>>
fgVars    == <<train_calls, train_results, train_returned, predict_outcome, predict_trained,
               predictions, predict_user, export_outcome, export_user, report_files>>

vars == <<genVars, cacheVars, batchVars, tallyVars, bgVars, fgVars>>

-----------------------------------------------------------------------------
(* Generic helpers (Python list/dict semantics).                           *)

Range(s) == {s[i] : i \in DOMAIN s}

Min2(a, b) == IF a <= b THEN a ELSE b

MinOfSet(S) == CHOOSE x \in S : \A y \in S : x <= y

\* s[:n] for n >= 0
Take(s, n) == SubSeq(s, 1, Min2(n, Len(s)))

RECURSIVE SumSeq(_)
SumSeq(s) == IF s = <<>> THEN 0 ELSE Head(s) + SumSeq(Tail(s))

\* Insert the pair x = <<item, key>> in a list kept in non-increasing key
\* order, before the first entry whose key is <= x's: x came earlier in the
\* input than every entry of s, so equal keys keep the input order (Python's
\* sort is stable, also with reverse=True).
InsertDesc(x, s) ==
    LET idx == {i \in 1..Len(s) : s[i][2] <= x[2]}
        p   == IF idx = {} THEN Len(s) + 1 ELSE MinOfSet(idx)
    IN  SubSeq(s, 1, p - 1) \o <<x>> \o SubSeq(s, p, Len(s))

\* sorted(pairs, key=lambda x: x[1], reverse=True)
RECURSIVE SortByCountDesc(_)
SortByCountDesc(s) ==
    IF s = <<>> THEN <<>> ELSE InsertDesc(Head(s), SortByCountDesc(Tail(s)))

\* d[k] = d.get(k, 0) + 1 on an insertion-ordered dict, kept as a list of
\* <<key, count>> pairs: an existing key keeps its place, a new one is appended.
DictIncrement(d, k) ==
    IF \E i \in 1..Len(d) : d[i][1] = k
    THEN [i \in 1..Len(d) |-> IF d[i][1] = k THEN <<k, d[i][2] + 1>> ELSE d[i]]
    ELSE Append(d, <<k, 1>>)

RECURSIVE DictIncrementAll(_, _)
DictIncrementAll(d, ks) ==
    IF ks = <<>> THEN d ELSE DictIncrementAll(DictIncrement(d, Head(ks)), Tail(ks))

RECURSIVE Flatten(_)
Flatten(ss) == IF ss = <<>> THEN <<>> ELSE Head(ss) \o Flatten(Tail(ss))

-----------------------------------------------------------------------------
(* RecommendationEngine: static tables.                                    *)

NoneVal == "None"

\* A meal's satisfaction_score when it was recorded without one (None)
NoScore == -1

\* Food names in the order Python compares the source's strings (by code point):
\* pizza (an ASCII name a user typed), then 坚果 nuts, 汤 soup, 燕麦粥 oatmeal,
\* 牛奶 milk, 牛肉 beef, 白菜 cabbage, 米饭 rice, 粥 congee, 苹果 apple,
\* 西红柿 tomato, 豆腐 tofu, 酸奶 yogurt, 青菜 greens, 面包 bread, 面条 noodles,
\* 饺子 dumplings, 饼干 biscuit, 香蕉 banana, 鸡肉 chicken, 鸡蛋 egg.
NameOrder ==
    <<"pizza", "nuts", "soup", "oatmeal", "milk", "beef", "cabbage", "rice",
      "congee", "apple", "tomato", "tofu", "yogurt", "greens", "bread",
      "noodles", "dumplings", "biscuit", "banana", "chicken", "egg">>

FoodRank(name) == CHOOSE i \in DOMAIN NameOrder : NameOrder[i] = name

\* sorted(names): ascending by code point
RECURSIVE SortNames(_)
SortNames(s) ==
    IF s = <<>> THEN <<>>
    ELSE LET rest == SortNames(Tail(s))
             x    == Head(s)
             idx  == {i \in 1..Len(rest) : FoodRank(rest[i]) > FoodRank(x)}
             p    == IF idx = {} THEN Len(rest) + 1 ELSE MinOfSet(idx)
         IN  SubSeq(rest, 1, p - 1) \o <<x>> \o SubSeq(rest, p, Len(rest))

\* _load_food_database: the entries of the foods the model uses
\* (米饭, 面条, 鸡蛋, 鸡肉, 豆腐, 苹果, 香蕉, 牛奶); no entry has avg_satisfaction.
FoodDatabase ==
    [rice    |-> [calories |-> 130, category |-> "staple"],
     noodles |-> [calories |-> 131, category |-> "staple"],
     egg     |-> [calories |-> 155, category |-> "protein"],
     chicken |-> [calories |-> 165, category |-> "protein"],
     tofu    |-> [calories |-> 76,  category |-> "protein"],
     apple   |-> [calories |-> 52,  category |-> "fruit"],
     banana  |-> [calories |-> 89,  category |-> "fruit"],
     milk    |-> [calories |-> 42,  category |-> "dairy"]]

\* _get_food_info: always a non-empty dict; defaults 100 kcal, category 其他,
\* satisfaction_score 4.0.
GetFoodInfo(food_name) ==
    IF food_name \in DOMAIN FoodDatabase
    THEN [name |-> food_name, calories |-> FoodDatabase[food_name].calories,
          category |-> FoodDatabase[food_name].category, satisfaction_score |-> 40]
    ELSE [name |-> food_name, calories |-> 100, category |-> "other",
          satisfaction_score |-> 40]

\* _load_meal_templates: the category lists per meal type
MealTemplates(mt) ==
    CASE mt = "breakfast" -> << [name |-> "classic_breakfast", categories |-> <<"staple", "protein", "beverage">>],
                                [name |-> "healthy_breakfast", categories |-> <<"grain", "fruit", "protein">>],
                                [name |-> "chinese_breakfast", categories |-> <<"staple", "protein", "vegetable">>] >>
      [] mt = "lunch"     -> << [name |-> "balanced_lunch", categories |-> <<"staple", "protein", "vegetable">>],
                                [name |-> "light_lunch",    categories |-> <<"staple", "protein", "vegetable">>],
                                [name |-> "rich_lunch",     categories |-> <<"staple", "protein", "vegetable", "soups">>] >>
      [] mt = "dinner"    -> << [name |-> "light_dinner", categories |-> <<"staple", "protein", "vegetable">>],
                                [name |-> "warm_dinner",  categories |-> <<"staple", "protein", "vegetable">>] >>
      [] mt = "snack"     -> << [name |-> "healthy_snack", categories |-> <<"fruit", "nuts">>],
                                [name |-> "casual_snack",  categories |-> <<"beverage", "snack">>] >>
      [] OTHER            -> << >>

\* common_foods of _select_common_food_for_category
CommonFoods(category) ==
    CASE category = "staple"    -> <<"rice", "noodles", "bread", "congee">>
      [] category = "protein"   -> <<"egg", "chicken", "beef", "tofu">>
      [] category = "vegetable" -> <<"greens", "cabbage", "tomato">>
      [] category = "beverage"  -> <<"milk", "yogurt", "soup">>
      [] category = "fruit"     -> <<"apple", "banana">>
      [] category = "nuts"      -> <<"nuts">>
      [] category = "snack"     -> <<"biscuit">>
      [] OTHER                  -> << >>

\* fallback_combinations of _generate_fallback_combinations
FallbackTable(mt) ==
    CASE mt = "breakfast" -> << [name |-> "nutritious_breakfast", foods |-> <<"bread", "egg", "milk">>],
                                [name |-> "healthy_breakfast",    foods |-> <<"oatmeal", "banana", "yogurt">>] >>
      [] mt = "lunch"     -> << [name |-> "balanced_lunch", foods |-> <<"rice", "chicken", "greens">>],
                                [name |-> "light_lunch",    foods |-> <<"noodles", "beef", "tomato">>] >>
      [] mt = "dinner"    -> << [name |-> "light_dinner", foods |-> <<"congee", "tofu", "cabbage">>],
                                [name |-> "warm_dinner",  foods |-> <<"dumplings", "soup">>] >>
      [] mt = "snack"     -> << [name |-> "healthy_snack", foods |-> <<"apple", "nuts">>],
                                [name |-> "casual_snack",  foods |-> <<"yogurt", "biscuit">>] >>
      [] OTHER            -> << >>


-----------------------------------------------------------------------------
(* RecommendationEngine: the strategies.                                   *)

\* _calculate_nutrition_score: mean satisfaction + min(0.1 * categories, 0.3)
CalculateNutritionScore(foods) ==
    IF foods = <<>> THEN 0
    ELSE LET categories == {foods[i].category : i \in DOMAIN foods}
             score      == SumSeq([i \in DOMAIN foods |-> foods[i].satisfaction_score])
         IN  (score \div Len(foods)) + Min2(Cardinality(categories), 3)

SumCalories(foods) == SumSeq([i \in DOMAIN foods |-> foods[i].calories])

\* The loop every strategy ends with: look each name up with _get_food_info
\* (always truthy, so every name is kept), add the calories, and keep the
\* combination only if it has at least 2 foods.
BuildCombination(name, names, pscore, source) ==
    LET foods == [i \in DOMAIN names |-> GetFoodInfo(names[i])]
    IN  IF Len(foods) >= 2
        THEN << [name |-> name, foods |-> foods,
                 total_calories |-> SumCalories(foods),
                 nutrition_score |-> CalculateNutritionScore(foods),
                 personalization_score |-> pscore, source |-> source] >>
        ELSE << >>

\* for i in range(len(foods)): for j in range(i+1, min(i+3, len(foods))):
\*     tuple(sorted(foods[i:j+1]))          (1-based here)
RECURSIVE WindowsFrom(_, _)
WindowsFrom(foods, i) ==
    IF i > Len(foods) THEN <<>>
    ELSE [k \in 1..(Min2(i + 2, Len(foods)) - i) |-> SortNames(SubSeq(foods, i, i + k))]
         \o WindowsFrom(foods, i + 1)

\* The comparison meal.get('satisfaction_score', 0) >= 4 raises TypeError when
\* the stored score is None (the meal was recorded without one).
SatisfactionRaises(meal) == meal.satisfaction_score = NoScore
HighSatisfaction(meal)   == meal.satisfaction_score >= 4

MealRecords(ms, mt) == SelectSeq(ms, LAMBDA m : m.meal_type = mt)

\* _generate_historical_combinations raises iff a record of the meal type has
\* >= 2 foods and no satisfaction score (the `and` short-circuits on the length).
HistoricalRaises(ms, mt) ==
    \E i \in DOMAIN ms : /\ ms[i].meal_type = mt
                         /\ Len(ms[i].foods) >= 2
                         /\ SatisfactionRaises(ms[i])

\* food_combinations: the windows of the qualifying records, tallied in
\* insertion order
HistoricalTally(ms, mt) ==
    LET recs == MealRecords(ms, mt)
        wins == Flatten([i \in DOMAIN recs |->
                    IF Len(recs[i].foods) >= 2 /\ HighSatisfaction(recs[i])
                    THEN WindowsFrom(recs[i].foods, 1) ELSE <<>>])
    IN  DictIncrementAll(<<>>, wins)

\* f"历史搭配{n}"
HistoricalName(n) == IF n = 1 THEN "historical_1" ELSE "historical_2"

RECURSIVE HistoricalEmit(_, _)
HistoricalEmit(top, acc) ==
    IF top = <<>> THEN acc
    ELSE LET combo == Head(top)[1]
             count == Head(top)[2]
             new   == IF count >= 2
                      THEN BuildCombination(HistoricalName(Len(acc) + 1), combo, 10, "historical")
                      ELSE <<>>
         IN  HistoricalEmit(Tail(top), acc \o new)

\* A version that also enumerates the one-food windows foods[i:i+1] and emits
\* every tallied window without the size check.
HistoricalCombinationsLoose(ms, mt) ==
    LET recs == MealRecords(ms, mt)
        wins == Flatten([i \in DOMAIN recs |->
                    IF Len(recs[i].foods) >= 2 /\ HighSatisfaction(recs[i])
                    THEN [k \in DOMAIN recs[i].foods |-> <<recs[i].foods[k]>>]
                         \o WindowsFrom(recs[i].foods, 1)
                    ELSE <<>>])
        top  == Take(SortByCountDesc(DictIncrementAll(<<>>, wins)), 2)
    IN  [i \in DOMAIN top |->
            [name |-> HistoricalName(i),
             foods |-> [k \in DOMAIN top[i][1] |-> GetFoodInfo(top[i][1][k])],
             total_calories |-> 0, nutrition_score |-> 0,
             personalization_score |-> 10, source |-> "historical"]]

\* _generate_historical_combinations (when it does not raise)
HistoricalCombinations(ms, mt) ==
    HistoricalEmit(Take(SortByCountDesc(HistoricalTally(ms, mt)), 2), <<>>)

\* _get_user_favorite_foods raises iff a record of the meal type has no score
FavoriteRaises(ms, mt) ==
    \E i \in DOMAIN ms : ms[i].meal_type = mt /\ SatisfactionRaises(ms[i])

\* _get_user_favorite_foods: the foods of the high-satisfaction records of the
\* meal type, by frequency, at most 10
GetUserFavoriteFoods(ms, mt) ==
    LET recs   == SelectSeq(ms, LAMBDA m : m.meal_type = mt /\ HighSatisfaction(m))
        counts == DictIncrementAll(<<>>, Flatten([i \in DOMAIN recs |-> recs[i].foods]))
        sorted == Take(SortByCountDesc(counts), 10)
    IN  [i \in DOMAIN sorted |-> sorted[i][1]]

\* _generate_personalized_combinations
PersonalizedCombinations(ms, mt) ==
    LET favorite_foods == GetUserFavoriteFoods(ms, mt)
    IN  IF Len(favorite_foods) >= 2
        THEN BuildCombination("personalized", Take(favorite_foods, 4), 9, "personalized")
        ELSE <<>>

\* _generate_similar_user_combinations: a stub
SimilarUserCombinations(ms, mt) == <<>>

\* _select_common_food_for_category: the food name, or NoneVal
SelectCommonFoodForCategory(category, mt) ==
    LET foods == CommonFoods(category)
    IN  IF foods = <<>> THEN NoneVal
        ELSE IF category = "staple" /\ mt = "breakfast"
             THEN (IF "bread" \in Range(foods) THEN "bread" ELSE foods[1])
        ELSE IF category = "staple" /\ mt = "lunch"
             THEN (IF "rice" \in Range(foods) THEN "rice" ELSE foods[1])
        ELSE IF category = "staple" /\ mt = "dinner"
             THEN (IF "congee" \in Range(foods) THEN "congee" ELSE foods[1])
        ELSE foods[1]

\* _generate_template_combinations: the first 2 templates of the meal type
TemplateCombinations(mt) ==
    LET templates == Take(MealTemplates(mt), 2)
        names(t)  == SelectSeq([i \in DOMAIN t.categories |->
                                   SelectCommonFoodForCategory(t.categories[i], mt)],
                               LAMBDA n : n # NoneVal)
    IN  Flatten([i \in DOMAIN templates |->
                    BuildCombination(templates[i].name, names(templates[i]), 3, "template")])

\* _generate_fallback_combinations: nutrition_score is the constant 4.0
FallbackCombinations(mt) ==
    LET templates == FallbackTable(mt)
    IN  Flatten([i \in DOMAIN templates |->
           LET c == BuildCombination(templates[i].name, templates[i].foods, 2, "fallback")
           IN  [k \in DOMAIN c |-> [c[k] EXCEPT !.nutrition_score = 40]]])

\* tuple(sorted([f["name"] for f in combo["foods"]]))
FoodNamesKey(combo) == SortNames([i \in DOMAIN combo.foods |-> combo.foods[i].name])

\* A version that keeps the last combination of each key instead of the first.
RECURSIVE DeduplicateKeepLast(_, _)
DeduplicateKeepLast(combinations, seen) ==
    IF combinations = <<>> THEN <<>>
    ELSE LET n    == Len(combinations)
             last == combinations[n]
             init == SubSeq(combinations, 1, n - 1)
         IN  IF FoodNamesKey(last) \in seen
             THEN DeduplicateKeepLast(init, seen)
             ELSE Append(DeduplicateKeepLast(init, seen \cup {FoodNamesKey(last)}), last)

\* The first loop of _deduplicate_and_rank_combinations: keep the first
\* combination of each sorted food-name tuple
RECURSIVE Deduplicate(_, _)
Deduplicate(combinations, seen) ==
    IF combinations = <<>> THEN <<>>
    ELSE LET combo == Head(combinations)
             key   == FoodNamesKey(combo)
         IN  IF key \in seen
             THEN Deduplicate(Tail(combinations), seen)
             ELSE <<combo>> \o Deduplicate(Tail(combinations), seen \cup {key})

\* A version of the score that changes sign once the engine has answered.
ScoreCombinationDrifting(combo) ==
    LET n == Len(combo.foods)
        satisfaction == SumSeq([i \in DOMAIN combo.foods |-> combo.foods[i].satisfaction_score]) \div n
        score == combo.personalization_score * 4 + combo.nutrition_score * 3 + satisfaction * 3
    IN  IF gen_path = "none" THEN score ELSE 0 - score

\* score_combination, times 100
ScoreCombination(combo) ==
    LET n == Len(combo.foods)
        satisfaction == SumSeq([i \in DOMAIN combo.foods |-> combo.foods[i].satisfaction_score]) \div n
    IN  combo.personalization_score * 4 + combo.nutrition_score * 3 + satisfaction * 3

\* A version that removes the duplicates and leaves the order of generation.
DeduplicateWithoutRanking(combinations) == Deduplicate(combinations, {})

\* _deduplicate_and_rank_combinations
DeduplicateAndRankCombinations(combinations) ==
    LET unique == Deduplicate(combinations, {})
        ranked == SortByCountDesc([i \in DOMAIN unique |-> <<unique[i], ScoreCombination(unique[i])>>])
    IN  [i \in DOMAIN ranked |-> ranked[i][1]]

\* The strategies 1-3 concatenated (lines 121-130)
StrategyCombinations(ms, mt) ==
    HistoricalCombinations(ms, mt) \o PersonalizedCombinations(ms, mt)
        \o SimilarUserCombinations(ms, mt)

GenerationRaises(ms, mt) == HistoricalRaises(ms, mt) \/ FavoriteRaises(ms, mt)

\* A version without the template step and without the two fallbacks.
GenerateMealCombinationsNoFallback(ms, mt) ==
    IF GenerationRaises(ms, mt) THEN <<>>
    ELSE Take(DeduplicateAndRankCombinations(StrategyCombinations(ms, mt)), 5)

\* A version of the test of line 133 that lets the template strategy run
\* whenever the first three strategies have returned.
TemplateRunsAlways(ms, mt) == ~GenerationRaises(ms, mt)

\* Line 133, `if len(combinations) < 3`, reached only when none of the
\* strategies before it has raised
TemplateRuns(ms, mt) ==
    ~GenerationRaises(ms, mt) /\ Len(StrategyCombinations(ms, mt)) < 3

\* _generate_meal_combinations
GenerateMealCombinations(ms, mt) ==
    IF GenerationRaises(ms, mt)
    THEN FallbackCombinations(mt)
    ELSE LET first  == StrategyCombinations(ms, mt)
             all    == IF TemplateRuns(ms, mt) THEN first \o TemplateCombinations(mt) ELSE first
             ranked == DeduplicateAndRankCombinations(all)
             final  == IF ranked = <<>> THEN FallbackCombinations(mt) ELSE ranked
         IN  Take(final, 5)

-----------------------------------------------------------------------------
(* EfficientDataProcessor: the persistent store and one worker task.       *)

Users == {"u1", "u2", "u3"}

\* The users table: u1 and u2 exist, u3 does not.  Scores are integers.
StoreUsers ==
    [u1 |-> [profile |-> [gender |-> "female", activity_level |-> "moderate"],
             meals   |-> << [foods |-> <<"rice", "egg">>,  satisfaction_score |-> 4, calories |-> 500],
                            [foods |-> <<"rice", "milk">>, satisfaction_score |-> 2, calories |-> 300] >>],
     u2 |-> [profile |-> [gender |-> "male", activity_level |-> "high"],
             meals   |-> << [foods |-> <<"egg">>, satisfaction_score |-> 5, calories |-> 200] >>]]

UserExists(user_id) == user_id \in DOMAIN StoreUsers

\* AppCore.__init__(self, config): config is a required positional parameter,
\* so the call raises TypeError unless a config is passed.
AppCoreInit(config_given) == config_given

NoError == ""

EmptyMealAnalysis ==
    [favorite_foods |-> <<>>, avg_satisfaction |-> 0, avg_calories |-> 0, food_diversity |-> 0]

EmptyPreferenceAnalysis == [gender |-> "unknown", activity_level |-> "unknown"]

\* {'error': message}
ErrorResult(message) ==
    [error |-> message, user_id |-> "", meal_analysis |-> EmptyMealAnalysis,
     preference_analysis |-> EmptyPreferenceAnalysis]

\* 'error' in result
IsError(result) == result.error # NoError

\* _analyze_meal_patterns: favorite_foods = the 5 most common foods,
\* food_diversity = number of distinct foods, the averages times 100
AnalyzeMealPatterns(ms) ==
    IF ms = <<>> THEN EmptyMealAnalysis
    ELSE LET food_counter == DictIncrementAll(<<>>, Flatten([i \in DOMAIN ms |-> ms[i].foods]))
             common       == Take(SortByCountDesc(food_counter), 5)
         IN  [favorite_foods   |-> [i \in DOMAIN common |-> common[i][1]],
              avg_satisfaction |-> (100 * SumSeq([i \in DOMAIN ms |-> ms[i].satisfaction_score])) \div Len(ms),
              avg_calories     |-> (100 * SumSeq([i \in DOMAIN ms |-> ms[i].calories])) \div Len(ms),
              food_diversity   |-> Len(food_counter)]

\* _analyze_user_preferences: basic_info
AnalyzeUserPreferences(user_data) ==
    [gender |-> user_data.profile.gender, activity_level |-> user_data.profile.activity_level]

\* _process_single_user: the task of one worker.  Everything is inside
\* try/except Exception, so it returns a value and never raises.  It begins
\* with AppCore(), a call without the config argument.
ProcessSingleUser(user_id) ==
    IF ~AppCoreInit(FALSE)
    THEN ErrorResult("TypeError: AppCore.__init__() missing 1 required positional argument")
    ELSE IF ~UserExists(user_id)
    THEN ErrorResult("user data does not exist")
    ELSE [error |-> NoError, user_id |-> user_id,
          meal_analysis |-> AnalyzeMealPatterns(StoreUsers[user_id].meals),
          preference_analysis |-> AnalyzeUserPreferences(StoreUsers[user_id])]

-----------------------------------------------------------------------------
(* EfficientDataProcessor: dict helpers and the merge step.                *)

DictKeys(d) == {d[i][1] : i \in DOMAIN d}

DictGet(d, k, default) ==
    IF k \in DictKeys(d) THEN d[CHOOSE i \in DOMAIN d : d[i][1] = k][2] ELSE default

\* A version of the assignment that skips error values.
DictPutUnlessError(d, k, v) ==
    IF IsError(v) THEN d
    ELSE IF k \in DictKeys(d)
         THEN [i \in DOMAIN d |-> IF d[i][1] = k THEN <<k, v>> ELSE d[i]]
         ELSE Append(d, <<k, v>>)

\* d[k] = v on an insertion-ordered dict
DictPut(d, k, v) ==
    IF k \in DictKeys(d)
    THEN [i \in DOMAIN d |-> IF d[i][1] = k THEN <<k, v>> ELSE d[i]]
    ELSE Append(d, <<k, v>>)

\* The results without the error values, in results.items() order
GoodResults(res) == SelectSeq(res, LAMBDA e : ~IsError(e[2]))

\* A version of the first loop that starts from an empty tally.
UpdateFoodFrequencyFresh(ff, res) ==
    LET good == SelectSeq(res, LAMBDA e : ~IsError(e[2]))
    IN  DictIncrementAll(<<>>, Flatten([i \in DOMAIN good |-> good[i][2].meal_analysis.favorite_foods]))

\* A version of the first loop that counts a user's favourites only until
\* every one of them is in the tally.
UpdateFoodFrequencyOnce(ff, res) ==
    LET good == SelectSeq(res, LAMBDA e : ~IsError(e[2]))
        favs == Flatten([i \in DOMAIN good |-> good[i][2].meal_analysis.favorite_foods])
    IN  IF favs # <<>> /\ \A i \in DOMAIN favs : favs[i] \in DictKeys(ff)
        THEN ff
        ELSE DictIncrementAll(ff, favs)

\* First loop of _update_precomputed_data (lines 280-288)
UpdateFoodFrequency(ff, res) ==
    LET good == GoodResults(res)
    IN  DictIncrementAll(ff, Flatten([i \in DOMAIN good |-> good[i][2].meal_analysis.favorite_foods]))

RECURSIVE DictPutAll(_, _)
DictPutAll(d, kvs) ==
    IF kvs = <<>> THEN d
    ELSE DictPutAll(DictPut(d, Head(kvs)[1], Head(kvs)[2]), Tail(kvs))

\* Second loop (lines 291-296)
UpdateUserPreferences(up, res) ==
    LET good == GoodResults(res)
    IN  DictPutAll(up, [i \in DOMAIN good |-> <<good[i][1], good[i][2].preference_analysis>>])

\* Third loop (lines 299-308)
UpdateNutritionPatterns(np, res) ==
    LET good == GoodResults(res)
    IN  DictPutAll(np, [i \in DOMAIN good |->
            <<good[i][1], [avg_calories     |-> good[i][2].meal_analysis.avg_calories,
                           avg_satisfaction |-> good[i][2].meal_analysis.avg_satisfaction,
                           food_diversity   |-> good[i][2].meal_analysis.food_diversity]>>])

\* A version that sorts by ascending count.
GetPopularFoodsAscending(ff, limit) ==
    LET desc == SortByCountDesc(ff)
    IN  Take([i \in DOMAIN desc |-> desc[Len(desc) + 1 - i]], limit)

\* get_popular_foods: sorted(items, key=count, reverse=True)[:limit], limit >= 0
GetPopularFoods(ff, limit) == Take(SortByCountDesc(ff), limit)

CachesEmpty ==
    /\ food_frequency = <<>>
    /\ user_preferences = <<>>
    /\ nutrition_patterns = <<>>
    /\ cache_lock = "free"
    /\ saved_files = [food_frequency |-> <<>>, user_preferences |-> <<>>, nutrition_patterns |-> <<>>,
                      save_failed |-> FALSE]

BatchIdle ==
    /\ batch_pc = "idle"
    /\ user_ids = <<>>
    /\ futures = <<>>
    /\ results = <<>>
    /\ returned = <<>>
    /\ batches_run = 0

MaxThreads == 2

Threads == 1..MaxThreads

Callers == {"c1", "c2"}

\* No provider was called, or it returned an empty list
NoProvided == [raised |-> FALSE, list |-> <<>>]

\* FastTrainingPipeline.__init__
PipelineIdle ==
    /\ models = <<>>
    /\ background_thread = 0
    /\ stop_event = FALSE
    /\ loop_pc = [t \in Threads |-> "unborn"]
    /\ provider = [t \in Threads |-> "none"]
    /\ wait_left = [t \in Threads |-> 0]
    /\ pass_ids = [t \in Threads |-> <<>>]
    /\ pass_results = [t \in Threads |-> <<>>]
    /\ provided = [t \in Threads |-> NoProvided]
    /\ next_tid = 1
    /\ caller_pc = [c \in Callers |-> "idle"]
    /\ last_call = "none"
    /\ prev_call = "none"
    /\ ever_trained = FALSE

\* No foreground call made yet
ForegroundIdle ==
    /\ train_calls = 0
    /\ train_results = <<>>
    /\ train_returned = <<>>
    /\ predict_outcome = "none"
    /\ predict_trained = FALSE
    /\ predictions = <<>>
    /\ predict_user = ""
    /\ export_outcome = "none"
    /\ export_user = ""
    /\ report_files = {}

TallyFoods == {"rice", "egg", "milk"}

TallyIdle ==
    /\ merged_total = [f \in TallyFoods |-> 0]
    /\ popular = <<>>
    /\ popular_limit = -1

-----------------------------------------------------------------------------
(* SpecGen: a user's meal log and requests for meal combinations.          *)

MaxMeals == 3

MealTypes == {"breakfast", "lunch", "dinner", "snack", "brunch"}

\* The meal records a log is drawn from: foods as typed by the user, the
\* satisfaction score 1..5 or None.
MealPool ==
    { [meal_type |-> "lunch",     foods |-> <<"rice", "chicken">>,          satisfaction_score |-> 5],
      [meal_type |-> "lunch",     foods |-> <<"rice", "chicken">>,          satisfaction_score |-> 3],
      [meal_type |-> "lunch",     foods |-> <<"rice", "rice", "chicken">>,  satisfaction_score |-> 5],
      [meal_type |-> "lunch",     foods |-> <<"chicken", "egg", "pizza">>,  satisfaction_score |-> 4],
      [meal_type |-> "lunch",     foods |-> <<"egg">>,                      satisfaction_score |-> 5],
      [meal_type |-> "lunch",     foods |-> <<"rice", "egg">>,              satisfaction_score |-> NoScore],
      [meal_type |-> "breakfast", foods |-> <<"egg", "milk">>,              satisfaction_score |-> 5],
      [meal_type |-> "dinner",    foods |-> <<"rice", "chicken">>,          satisfaction_score |-> 5] }

MealLogs == UNION {[1..n -> MealPool] : n \in 0..MaxMeals}

GenIdle ==
    /\ meals = <<>>
    /\ meal_type = "none"
    /\ recommendations = <<>>
    /\ gen_path = "none"
    /\ repeated = FALSE
    /\ template_ran = FALSE

InitGen ==
    /\ meals \in MealLogs
    /\ meal_type = "none"
    /\ recommendations = <<>>
    /\ gen_path = "none"
    /\ repeated = FALSE
    /\ template_ran = FALSE
    /\ CachesEmpty
    /\ BatchIdle
    /\ TallyIdle
    /\ PipelineIdle
    /\ ForegroundIdle

\* A request _generate_meal_combinations(user_data, mt, preferences, context)
RequestMealCombinations(mt) ==
    /\ meal_type' = mt
    /\ recommendations' = GenerateMealCombinations(meals, mt)
    /\ gen_path' = IF GenerationRaises(meals, mt) THEN "exception" ELSE "normal"
    /\ repeated' = (mt = meal_type)
    /\ template_ran' = TemplateRuns(meals, mt)
    /\ UNCHANGED <<meals, cacheVars, batchVars, tallyVars, bgVars, fgVars>>

NextGen == \E mt \in MealTypes : RequestMealCombinations(mt)

SpecGen == InitGen /\ [][NextGen]_vars


\* The set of food names of a combination
FoodNameSet(combo) == {combo.foods[i].name : i \in DOMAIN combo.foods}

Sources(combinations) == {combinations[i].source : i \in DOMAIN combinations}

\* C7: in the list returned by generateMealCombinations no two combinations
\* have the same set of food names.
C7_DistinctFoodNameSets ==
    \A i, j \in DOMAIN recommendations :
        i # j => FoodNameSet(recommendations[i]) # FoodNameSet(recommendations[j])

\* C8: every combination returned by generateMealCombinations, on every path,
\* contains at least 2 food items.
C8_AtLeastTwoFoodItems ==
    \A i \in DOMAIN recommendations : Len(recommendations[i].foods) >= 2

\* C8 witness: a returned list holding a historical and a template combination
C8_Witness ==
    /\ gen_path = "normal"
    /\ {"historical", "template"} \subseteq Sources(recommendations)
    /\ \A i \in DOMAIN recommendations : Len(recommendations[i].foods) >= 2

\* C9: for a user with no meals, a breakfast request returns between 1 and 5
\* combinations, all produced by the template or the static-fallback strategy.
C9_BreakfastNoMealsNonEmpty ==
    (meals = <<>> /\ meal_type = "breakfast")
        => /\ Len(recommendations) \in 1..5
           /\ Sources(recommendations) \subseteq {"template", "fallback"}

\* C9 witness: the breakfast request of a user with no meals has been answered
C9_Witness ==
    /\ meals = <<>>
    /\ meal_type = "breakfast"
    /\ gen_path = "normal"
    /\ Len(recommendations) = 2

ScenarioAMeal ==
    [meal_type |-> "lunch", foods |-> <<"rice", "chicken">>, satisfaction_score |-> 5]

\* The user's only lunch records are two identical [rice, chicken] meals with
\* satisfaction 5, and lunch combinations have been requested
ScenarioA ==
    /\ meal_type = "lunch"
    /\ MealRecords(meals, "lunch") = <<ScenarioAMeal, ScenarioAMeal>>

\* C10: in scenario A the returned list contains a combination with source
\* historical whose food set is exactly {rice, chicken}.
C10_ScenarioAHistorical ==
    ScenarioA =>
        \E i \in DOMAIN recommendations :
            /\ recommendations[i].source = "historical"
            /\ FoodNameSet(recommendations[i]) = {"rice", "chicken"}
            /\ Len(recommendations[i].foods) = 2

\* C10 witness: scenario A with a further non-lunch record, answered with the
\* historical combination first and no personalized one over the same foods
C10_Witness ==
    /\ ScenarioA
    /\ Len(meals) = 3
    /\ recommendations # <<>>
    /\ recommendations[1].source = "historical"
    /\ "personalized" \notin Sources(recommendations)


-----------------------------------------------------------------------------
(* SpecBatch: batch_process_user_data, task by task.                       *)

MaxBatch == 3

MaxBatches == 2

\* ThreadPoolExecutor(max_workers=4)
MaxWorkers == 4

UserIdLists == UNION {[1..n -> Users] : n \in 0..MaxBatch}

NoOutcome == [raised |-> FALSE, value |-> ErrorResult("not run")]

InitBatch ==
    /\ GenIdle
    /\ CachesEmpty
    /\ BatchIdle
    /\ TallyIdle
    /\ PipelineIdle
    /\ ForegroundIdle

\* Lines 91-101: the call begins and submits one task per element of user_ids
BatchSubmit(ids) ==
    /\ batch_pc \in {"idle", "done"}
    /\ batches_run < MaxBatches
    /\ batches_run' = batches_run + 1
    /\ user_ids' = ids
    /\ futures' = [i \in DOMAIN ids |-> [status |-> "pending", outcome |-> NoOutcome]]
    /\ results' = <<>>
    /\ returned' = <<>>
    /\ batch_pc' = "collect"
    /\ UNCHANGED <<genVars, cacheVars, tallyVars, bgVars, fgVars>>

Running == {i \in DOMAIN futures : futures[i].status = "running"}

\* A pool thread takes a pending task; at most max_workers run at a time
WorkerStart(i) ==
    /\ batch_pc = "collect"
    /\ futures[i].status = "pending"
    /\ Cardinality(Running) < MaxWorkers
    /\ futures' = [futures EXCEPT ![i].status = "running"]
    /\ UNCHANGED <<batch_pc, user_ids, results, returned, batches_run, genVars, cacheVars, tallyVars, bgVars, fgVars>>

\* The task _process_single_user(user_id) ends: it returns its value
WorkerFinish(i) ==
    /\ batch_pc = "collect"
    /\ futures[i].status = "running"
    /\ futures' = [futures EXCEPT ![i] =
                      [status |-> "done",
                       outcome |-> [raised |-> FALSE, value |-> ProcessSingleUser(user_ids[i])]]]
    /\ UNCHANGED <<batch_pc, user_ids, results, returned, batches_run, genVars, cacheVars, tallyVars, bgVars, fgVars>>

\* A version in which an error value ends the call with an exception.
CollectResultAbort(i) ==
    /\ batch_pc = "collect"
    /\ futures[i].status = "done"
    /\ futures' = [futures EXCEPT ![i].status = "collected"]
    /\ IF futures[i].outcome.raised \/ IsError(futures[i].outcome.value)
       THEN batch_pc' = "raised" /\ UNCHANGED results
       ELSE batch_pc' = batch_pc
            /\ results' = DictPut(results, user_ids[i], futures[i].outcome.value)
    /\ UNCHANGED <<user_ids, returned, batches_run, genVars, cacheVars, tallyVars, bgVars, fgVars>>

\* Lines 104-111: as_completed yields a finished task; its value, or the error
\* value made from the exception it raised, is stored under its user id
CollectResult(i) ==
    /\ batch_pc = "collect"
    /\ futures[i].status = "done"
    /\ futures' = [futures EXCEPT ![i].status = "collected"]
    /\ results' = DictPut(results, user_ids[i],
                          IF futures[i].outcome.raised
                          THEN ErrorResult("raised")
                          ELSE futures[i].outcome.value)
    /\ UNCHANGED <<batch_pc, user_ids, returned, batches_run, genVars, cacheVars, tallyVars, bgVars, fgVars>>

AllCollected == \A i \in DOMAIN futures : futures[i].status = "collected"

\* What a merge adds to each food's count
MergedTotalAfter(res) ==
    LET good == GoodResults(res)
        favs == Flatten([i \in DOMAIN good |-> good[i][2].meal_analysis.favorite_foods])
    IN  [f \in TallyFoods |-> merged_total[f] + Cardinality({i \in DOMAIN favs : favs[i] = f})]

\* _update_precomputed_data, lines 278-288: take the lock, add the food counts
MergeFoodFrequency ==
    /\ batch_pc = "collect"
    /\ AllCollected
    /\ cache_lock = "free"
    /\ cache_lock' = "batch"
    /\ food_frequency' = UpdateFoodFrequency(food_frequency, results)
    /\ merged_total' = MergedTotalAfter(results)
    /\ batch_pc' = "merge_prefs"
    /\ UNCHANGED <<user_preferences, nutrition_patterns, saved_files, user_ids, futures,
                   results, returned, batches_run, popular, popular_limit, genVars, bgVars, fgVars>>

\* Lines 291-296
MergeUserPreferences ==
    /\ batch_pc = "merge_prefs"
    /\ user_preferences' = UpdateUserPreferences(user_preferences, results)
    /\ batch_pc' = "merge_nutrition"
    /\ UNCHANGED <<food_frequency, nutrition_patterns, cache_lock, saved_files, user_ids, futures,
                   results, returned, batches_run, genVars, tallyVars, bgVars, fgVars>>

\* A version of the last merge step whose save lets its exception through:
\* the call ends with it, and the caches are read back from the files.
MergeNutritionAndSaveRaising ==
    /\ batch_pc = "merge_nutrition"
    /\ \E save_ok \in BOOLEAN :
          IF save_ok
          THEN /\ nutrition_patterns' = UpdateNutritionPatterns(nutrition_patterns, results)
               /\ saved_files' = [food_frequency |-> food_frequency,
                                  user_preferences |-> user_preferences,
                                  nutrition_patterns |-> nutrition_patterns',
                                  save_failed |-> FALSE]
               /\ batch_pc' = "return"
               /\ UNCHANGED <<food_frequency, user_preferences>>
          ELSE /\ saved_files' = [saved_files EXCEPT !.save_failed = TRUE]
               /\ food_frequency' = saved_files.food_frequency
               /\ user_preferences' = saved_files.user_preferences
               /\ nutrition_patterns' = saved_files.nutrition_patterns
               /\ batch_pc' = "raised"
    /\ cache_lock' = "free"
    /\ UNCHANGED <<user_ids, futures, results, returned, batches_run, genVars, tallyVars, bgVars, fgVars>>

\* Lines 299-311: the nutrition entries, then _save_precomputed_data, which
\* overwrites the three files or fails (logged, not raised); the lock is released
MergeNutritionAndSave ==
    /\ batch_pc = "merge_nutrition"
    /\ nutrition_patterns' = UpdateNutritionPatterns(nutrition_patterns, results)
    /\ \E save_ok \in BOOLEAN :
          saved_files' = IF save_ok
                         THEN [food_frequency |-> food_frequency,
                               user_preferences |-> user_preferences,
                               nutrition_patterns |-> nutrition_patterns',
                               save_failed |-> FALSE]
                         ELSE [saved_files EXCEPT !.save_failed = TRUE]
    /\ cache_lock' = "free"
    /\ batch_pc' = "return"
    /\ UNCHANGED <<food_frequency, user_preferences, user_ids, futures,
                   results, returned, batches_run, genVars, tallyVars, bgVars, fgVars>>

\* Line 117: return results
BatchReturn ==
    /\ batch_pc = "return"
    /\ returned' = results
    /\ batch_pc' = "done"
    /\ UNCHANGED <<user_ids, futures, results, batches_run, genVars, cacheVars, tallyVars, bgVars, fgVars>>

NextBatch ==
    \/ \E ids \in UserIdLists : BatchSubmit(ids)
    \/ \E i \in DOMAIN futures : WorkerStart(i)
    \/ \E i \in DOMAIN futures : WorkerFinish(i)
    \/ \E i \in DOMAIN futures : CollectResult(i)
    \/ MergeFoodFrequency
    \/ MergeUserPreferences
    \/ MergeNutritionAndSave
    \/ BatchReturn

SpecBatch == InitBatch /\ [][NextBatch]_vars


\* C3: batchProcessUserData returns a map whose key set is exactly the set of
\* input ids, one entry per id, whatever order the workers complete in.
C3_OneEntryPerInputId ==
    batch_pc = "done" =>
        /\ DictKeys(returned) = Range(user_ids)
        /\ Len(returned) = Cardinality(Range(user_ids))

\* C3 witness: a returned map of two or more users whose entries are in
\* completion order, not input order
C3_Witness ==
    /\ batch_pc = "done"
    /\ Cardinality(Range(user_ids)) >= 2
    /\ returned[1][1] # user_ids[1]
    /\ DictKeys(returned) = Range(user_ids)

\* C4: a failure while processing one user is never raised to the caller and
\* never aborts the sibling workers: every task of the batch runs and is
\* collected, every user has an entry, and a failed user's entry is an error
\* value.
C4_FailuresIsolated ==
    /\ batch_pc # "raised"
    /\ batch_pc \in {"return", "done"} =>
          /\ AllCollected
          /\ \A i \in DOMAIN user_ids :
                /\ user_ids[i] \in DictKeys(results)
                /\ (futures[i].outcome.raised \/ IsError(futures[i].outcome.value))
                      => IsError(DictGet(results, user_ids[i], NoOutcome.value))

\* C4 witness: a batch of several users, one of them missing from the store,
\* has returned with an error entry for it and an entry for every sibling
C4_Witness ==
    /\ batch_pc = "done"
    /\ Cardinality(Range(user_ids)) >= 2
    /\ "u3" \in Range(user_ids)
    /\ IsError(DictGet(returned, "u3", NoOutcome.value))
    /\ DictKeys(returned) = Range(user_ids)

-----------------------------------------------------------------------------
(* SpecTally: whole batches and get_popular_foods over a loaded tally.     *)

MaxLoadedCount == 2

MaxLimit == 3

\* The injective lists of foods: the key orders a loaded dict can have
FoodOrders == {o \in UNION {[1..n -> TallyFoods] : n \in 0..Cardinality(TallyFoods)} :
                  \A i, j \in DOMAIN o : o[i] = o[j] => i = j}

\* What _load_precomputed_data can read from food_frequency.pkl
LoadedTallies ==
    UNION { {[i \in DOMAIN o |-> <<o[i], c[i]>>] : c \in [DOMAIN o -> 1..MaxLoadedCount]} : o \in FoodOrders }

InitTally ==
    /\ GenIdle
    /\ BatchIdle
    /\ PipelineIdle
    /\ ForegroundIdle
    /\ food_frequency \in LoadedTallies
    /\ user_preferences = <<>>
    /\ nutrition_patterns = <<>>
    /\ cache_lock = "free"
    /\ saved_files = [food_frequency |-> food_frequency, user_preferences |-> <<>>,
                      nutrition_patterns |-> <<>>, save_failed |-> FALSE]
    /\ merged_total = [f \in TallyFoods |-> DictGet(food_frequency, f, 0)]
    /\ popular = <<>>
    /\ popular_limit = -1

\* The batches of SpecTally: lists of different user ids
DistinctIdLists == {ids \in UserIdLists : \A i, j \in DOMAIN ids : ids[i] = ids[j] => i = j}

CompletionOrders(n) == {o \in [1..n -> 1..n] : \A i, j \in 1..n : o[i] = o[j] => i = j}

\* The dict results of batch_process_user_data when the tasks complete in the
\* order given
BatchResults(ids, order) ==
    DictPutAll(<<>>, [k \in DOMAIN ids |-> <<ids[order[k]], ProcessSingleUser(ids[order[k]])>>])

\* batch_process_user_data as one step: the tasks complete in some order, the
\* results are merged into the caches and the caches are saved.  The result
\* of an earlier get_popular_foods is forgotten.
BatchProcessUserData(ids) ==
    /\ batch_pc = "idle"
    /\ cache_lock = "free"
    /\ batches_run < MaxBatches
    /\ batches_run' = batches_run + 1
    /\ \E order \in CompletionOrders(Len(ids)) :
          LET res == BatchResults(ids, order)
          IN  /\ food_frequency' = UpdateFoodFrequency(food_frequency, res)
              /\ user_preferences' = UpdateUserPreferences(user_preferences, res)
              /\ nutrition_patterns' = UpdateNutritionPatterns(nutrition_patterns, res)
              /\ merged_total' = MergedTotalAfter(res)
    /\ \E save_ok \in BOOLEAN :
          saved_files' = IF save_ok
                         THEN [food_frequency |-> food_frequency',
                               user_preferences |-> user_preferences',
                               nutrition_patterns |-> nutrition_patterns',
                               save_failed |-> FALSE]
                         ELSE [saved_files EXCEPT !.save_failed = TRUE]
    /\ popular' = <<>>
    /\ popular_limit' = -1
    /\ UNCHANGED <<cache_lock, batch_pc, user_ids, futures, results, returned, genVars, bgVars, fgVars>>

\* A call get_popular_foods(limit)
PopularFoodsQuery(limit) ==
    /\ popular' = GetPopularFoods(food_frequency, limit)
    /\ popular_limit' = limit
    /\ UNCHANGED <<merged_total, genVars, cacheVars, batchVars, bgVars, fgVars>>

NextTally ==
    \/ \E ids \in DistinctIdLists : BatchProcessUserData(ids)
    \/ \E limit \in 0..MaxLimit : PopularFoodsQuery(limit)

SpecTally == InitTally /\ [][NextTally]_vars

\* C6: getPopularFoods(k), k >= 0, returns at most k (food, count) pairs in
\* non-increasing count order, each count being the food's cumulative tally:
\* what was loaded plus what every batch so far merged.
C6_PopularFoods ==
    popular_limit >= 0 =>
        /\ Len(popular) <= popular_limit
        /\ \A i \in 1..(Len(popular) - 1) : popular[i][2] >= popular[i + 1][2]
        /\ \A i \in DOMAIN popular : popular[i][2] = merged_total[popular[i][1]]
        /\ \A i, j \in DOMAIN popular : popular[i][1] = popular[j][1] => i = j

\* C6 witness: after a batch, a query with k below the number of foods
\* returned k pairs with different counts
C6_Witness ==
    /\ batches_run >= 1
    /\ popular_limit = 2
    /\ Len(popular) = 2
    /\ Len(food_frequency) = 3
    /\ popular[1][2] > popular[2][2]

-----------------------------------------------------------------------------
(* FastTrainingPipeline: training.                                         *)

\* _extract_features: error values are skipped
ExtractFeatures(processed_data) ==
    LET good == GoodResults(processed_data)
    IN  [user_features |-> [i \in DOMAIN good |-> <<good[i][1], good[i][2].preference_analysis.gender>>],
         food_features |-> DictIncrementAll(<<>>,
                              Flatten([i \in DOMAIN good |-> good[i][2].meal_analysis.favorite_foods]))]

\* A version of the rules whose confidence is count / 10 without the cap.
GenerateRecommendationRulesUncapped(features) ==
    LET popular_foods == Take(SortByCountDesc(features.food_features), 10)
        women         == SelectSeq(features.user_features, LAMBDA u : u[2] = "female")
    IN  [i \in DOMAIN popular_foods |->
            [type |-> "popular_food", recommendation |-> popular_foods[i][1],
             confidence |-> popular_foods[i][2] * 10]]
        \o [i \in DOMAIN women |->
            [type |-> "gender_based", recommendation |-> "iron_rich", confidence |-> 80]]

\* _generate_recommendation_rules: one rule for each of the 10 most frequent
\* foods, then one for each female user.  Confidence times 100.
GenerateRecommendationRules(features) ==
    LET popular_foods == Take(SortByCountDesc(features.food_features), 10)
        women         == SelectSeq(features.user_features, LAMBDA u : u[2] = "female")
    IN  [i \in DOMAIN popular_foods |->
            [type |-> "popular_food", recommendation |-> popular_foods[i][1],
             confidence |-> Min2(popular_foods[i][2] * 10, 100)]]
        \o [i \in DOMAIN women |->
            [type |-> "gender_based", recommendation |-> "iron_rich", confidence |-> 80]]

\* _train_simple_recommendation_model
TrainSimpleRecommendationModel(features) ==
    [user_count           |-> Len(features.user_features),
     food_count           |-> Len(features.food_features),
     recommendation_rules |-> GenerateRecommendationRules(features)]

-----------------------------------------------------------------------------
(* FastTrainingPipeline: the background loop.                              *)

IntervalTicks == 1

\* What a user_ids_provider may return
ProviderLists == {<<>>, <<"u1">>, <<"u3", "u1">>}

\* Thread.is_alive(): started and run() not finished
Alive(t) == loop_pc[t] \in {"check", "resolve", "train", "merging", "store", "wait"}

LiveLoops == {t \in Threads : Alive(t)}

\* self._background_thread and self._background_thread.is_alive()
HandleAlive == background_thread # 0 /\ Alive(background_thread)

\* list(self.data_processor.user_preferences.keys())
PreferenceKeys == [i \in DOMAIN user_preferences |-> user_preferences[i][1]]

\* while not self._stop_event.is_set(): when the loop ends, _loop returns and
\* its closure, the provider with it, is released
LoopCheck(t) ==
    /\ loop_pc[t] = "check"
    /\ loop_pc' = [loop_pc EXCEPT ![t] = IF stop_event THEN "dead" ELSE "resolve"]
    /\ provider' = [provider EXCEPT ![t] = IF stop_event THEN "none" ELSE @]
    /\ UNCHANGED <<models, ever_trained, pass_results, provided, background_thread, stop_event, wait_left, pass_ids,
                   next_tid, caller_pc, last_call, prev_call,
                   genVars, cacheVars, batchVars, tallyVars, fgVars>>

\* A version of the resolution without the fallback: the provider's list is
\* used as it is, and the preference keys only without a provider.
LoopResolveIdsNoFallback(t) ==
    /\ loop_pc[t] = "resolve"
    /\ \E raises \in (IF provider[t] = "given" THEN BOOLEAN ELSE {FALSE}),
          given \in (IF provider[t] = "given" THEN ProviderLists ELSE {<<>>}) :
          LET ids == IF provider[t] = "given" THEN given ELSE PreferenceKeys
          IN  /\ provided' = [provided EXCEPT ![t] =
                                [raised |-> raises, list |-> IF raises THEN <<>> ELSE given]]
              /\ IF raises \/ ids = <<>>
                 THEN /\ loop_pc' = [loop_pc EXCEPT ![t] = "wait"]
                      /\ wait_left' = [wait_left EXCEPT ![t] = IntervalTicks]
                      /\ UNCHANGED pass_ids
                 ELSE /\ loop_pc' = [loop_pc EXCEPT ![t] = "train"]
                      /\ pass_ids' = [pass_ids EXCEPT ![t] = ids]
                      /\ UNCHANGED wait_left
    /\ UNCHANGED <<models, ever_trained, pass_results, background_thread, stop_event, provider,
                   next_tid, caller_pc, last_call, prev_call,
                   genVars, cacheVars, batchVars, tallyVars, fgVars>>

\* Lines 448-452: the ids of the pass.  The provider may raise; an empty list
\* falls back to the preference keys; without ids there is no pass.
LoopResolveIds(t) ==
    /\ loop_pc[t] = "resolve"
    /\ \E raises \in (IF provider[t] = "given" THEN BOOLEAN ELSE {FALSE}),
          given \in (IF provider[t] = "given" THEN ProviderLists ELSE {<<>>}) :
          LET ids == IF given # <<>> THEN given ELSE PreferenceKeys
          IN  /\ provided' = [provided EXCEPT ![t] =
                                [raised |-> raises, list |-> IF raises THEN <<>> ELSE given]]
              /\ IF raises \/ ids = <<>>
                 THEN /\ loop_pc' = [loop_pc EXCEPT ![t] = "wait"]
                      /\ wait_left' = [wait_left EXCEPT ![t] = IntervalTicks]
                      /\ UNCHANGED pass_ids
                 ELSE /\ loop_pc' = [loop_pc EXCEPT ![t] = "train"]
                      /\ pass_ids' = [pass_ids EXCEPT ![t] = ids]
                      /\ UNCHANGED wait_left
    /\ UNCHANGED <<models, ever_trained, pass_results, background_thread, stop_event, provider,
                   next_tid, caller_pc, last_call, prev_call,
                   genVars, cacheVars, batchVars, tallyVars, fgVars>>

\* train_recommendation_model(user_ids) inside the loop: the batch, the merge
\* under the lock, the save, the model; then the loop enters its wait.
LoopTrain(t) ==
    /\ loop_pc[t] = "train"
    /\ cache_lock = "free"
    /\ \E order \in CompletionOrders(Len(pass_ids[t])) :
          LET res == BatchResults(pass_ids[t], order)
          IN  /\ food_frequency' = UpdateFoodFrequency(food_frequency, res)
              /\ user_preferences' = UpdateUserPreferences(user_preferences, res)
              /\ nutrition_patterns' = UpdateNutritionPatterns(nutrition_patterns, res)
              /\ merged_total' = MergedTotalAfter(res)
              /\ models' = <<TrainSimpleRecommendationModel(ExtractFeatures(res))>>
    /\ ever_trained' = TRUE
    /\ \E save_ok \in BOOLEAN :
          saved_files' = IF save_ok
                         THEN [food_frequency |-> food_frequency',
                               user_preferences |-> user_preferences',
                               nutrition_patterns |-> nutrition_patterns',
                               save_failed |-> FALSE]
                         ELSE [saved_files EXCEPT !.save_failed = TRUE]
    /\ loop_pc' = [loop_pc EXCEPT ![t] = "wait"]
    /\ wait_left' = [wait_left EXCEPT ![t] = IntervalTicks]
    /\ pass_ids' = [pass_ids EXCEPT ![t] = <<>>]
    /\ provided' = [provided EXCEPT ![t] = NoProvided]
    /\ UNCHANGED <<pass_results, background_thread, stop_event, provider, next_tid, caller_pc, last_call,
                   prev_call, cache_lock, popular, popular_limit, genVars, batchVars, fgVars>>

\* A version of the loop without its `except Exception`: a pass that raises
\* ends the thread.
LoopTrainRaisesUncaught(t) ==
    /\ loop_pc[t] = "train"
    /\ provided' = [provided EXCEPT ![t] = [raised |-> TRUE, list |-> <<>>]]
    /\ loop_pc' = [loop_pc EXCEPT ![t] = "dead"]
    /\ pass_ids' = [pass_ids EXCEPT ![t] = <<>>]
    /\ UNCHANGED <<models, ever_trained, pass_results, background_thread, stop_event, provider, wait_left,
                   next_tid, caller_pc, last_call, prev_call,
                   genVars, cacheVars, batchVars, tallyVars, fgVars>>

\* The training pass raises before it has changed anything (executor.submit
\* cannot start a thread, say): `except Exception` logs, `finally` waits.
LoopTrainRaises(t) ==
    /\ loop_pc[t] = "train"
    /\ provided' = [provided EXCEPT ![t] = [raised |-> TRUE, list |-> <<>>]]
    /\ loop_pc' = [loop_pc EXCEPT ![t] = "wait"]
    /\ wait_left' = [wait_left EXCEPT ![t] = IntervalTicks]
    /\ pass_ids' = [pass_ids EXCEPT ![t] = <<>>]
    /\ UNCHANGED <<models, ever_trained, pass_results, background_thread, stop_event, provider,
                   next_tid, caller_pc, last_call, prev_call,
                   genVars, cacheVars, batchVars, tallyVars, fgVars>>

\* A version of the wait that is a plain sleep: it returns only when the
\* interval has elapsed.
LoopSleepReturn(t) ==
    /\ loop_pc[t] = "wait"
    /\ wait_left[t] = 0
    /\ loop_pc' = [loop_pc EXCEPT ![t] = "check"]
    /\ provided' = [provided EXCEPT ![t] = NoProvided]
    /\ UNCHANGED <<models, ever_trained, pass_results, background_thread, stop_event, provider, wait_left, pass_ids,
                   next_tid, caller_pc, last_call, prev_call,
                   genVars, cacheVars, batchVars, tallyVars, fgVars>>

\* self._stop_event.wait(interval_minutes * 60) returns: the event is set or
\* the interval has elapsed.  wait_left keeps what was left of the interval;
\* the record of the iteration is cleared.
LoopWaitReturn(t) ==
    /\ loop_pc[t] = "wait"
    /\ stop_event \/ wait_left[t] = 0
    /\ loop_pc' = [loop_pc EXCEPT ![t] = "check"]
    /\ provided' = [provided EXCEPT ![t] = NoProvided]
    /\ UNCHANGED <<models, ever_trained, pass_results, background_thread, stop_event, provider, wait_left, pass_ids,
                   next_tid, caller_pc, last_call, prev_call,
                   genVars, cacheVars, batchVars, tallyVars, fgVars>>

\* Time passes for the loops that wait
Tick ==
    /\ \E t \in Threads : loop_pc[t] = "wait" /\ wait_left[t] > 0
    /\ wait_left' = [t \in Threads |->
                        IF loop_pc[t] = "wait" /\ wait_left[t] > 0
                        THEN wait_left[t] - 1 ELSE wait_left[t]]
    /\ UNCHANGED <<models, ever_trained, pass_results, provided, background_thread, stop_event, loop_pc, provider, pass_ids,
                   next_tid, caller_pc, last_call, prev_call,
                   genVars, cacheVars, batchVars, tallyVars, fgVars>>

LoopStep(t) ==
    LoopCheck(t) \/ LoopResolveIds(t) \/ LoopTrain(t) \/ LoopTrainRaises(t) \/ LoopWaitReturn(t)

-----------------------------------------------------------------------------
(* Spec: start/stop called one after the other.                            *)

CallersIdle == \A c \in Callers : caller_pc[c] = "idle"

\* The call log
Logged(call) ==
    /\ last_call' = call
    /\ prev_call' = last_call

\* A version of start_background_training without the is_alive() check.
StartBackgroundTrainingAlways(c, user_ids_provider) ==
    /\ CallersIdle
    /\ next_tid <= MaxThreads
    /\ stop_event' = FALSE
    /\ background_thread' = next_tid
    /\ loop_pc' = [loop_pc EXCEPT ![next_tid] = "check"]
    /\ provider' = [provider EXCEPT ![next_tid] = user_ids_provider]
    /\ next_tid' = next_tid + 1
    /\ Logged("start_spawned")
    /\ UNCHANGED <<models, ever_trained, pass_results, provided, wait_left, pass_ids, caller_pc,
                   genVars, cacheVars, batchVars, tallyVars, fgVars>>

\* A version of start_background_training that leaves the stop event as it
\* finds it.
StartBackgroundTrainingNoClear(c, user_ids_provider) ==
    /\ CallersIdle
    /\ IF HandleAlive
       THEN /\ Logged("start_noop")
            /\ UNCHANGED <<background_thread, loop_pc, provider, next_tid>>
       ELSE /\ next_tid <= MaxThreads
            /\ background_thread' = next_tid
            /\ loop_pc' = [loop_pc EXCEPT ![next_tid] = "check"]
            /\ provider' = [provider EXCEPT ![next_tid] = user_ids_provider]
            /\ next_tid' = next_tid + 1
            /\ Logged("start_spawned")
    /\ UNCHANGED <<models, ever_trained, pass_results, provided, stop_event, wait_left, pass_ids, caller_pc,
                   genVars, cacheVars, batchVars, tallyVars, fgVars>>

\* start_background_training as one step of a client that no other call
\* overlaps: return if the stored thread is alive; else clear the event,
\* construct the thread, store it and start it.
StartBackgroundTraining(c, user_ids_provider) ==
    /\ CallersIdle
    /\ IF HandleAlive
       THEN /\ Logged("start_noop")
            /\ UNCHANGED <<stop_event, background_thread, loop_pc, provider, next_tid>>
       ELSE /\ next_tid <= MaxThreads
            /\ stop_event' = FALSE
            /\ background_thread' = next_tid
            /\ loop_pc' = [loop_pc EXCEPT ![next_tid] = "check"]
            /\ provider' = [provider EXCEPT ![next_tid] = user_ids_provider]
            /\ next_tid' = next_tid + 1
            /\ Logged("start_spawned")
    /\ UNCHANGED <<models, ever_trained, pass_results, provided, wait_left, pass_ids, caller_pc,
                   genVars, cacheVars, batchVars, tallyVars, fgVars>>

\* A version of stop that cancels the pass in flight: a loop inside its
\* training pass is ended on the spot.
StopBackgroundTrainingPreempts(c) ==
    /\ caller_pc[c] = "idle"
    /\ stop_event' = TRUE
    /\ Logged("stop")
    /\ caller_pc' = [caller_pc EXCEPT ![c] = IF HandleAlive THEN "join" ELSE "idle"]
    /\ loop_pc' = [t \in Threads |-> IF loop_pc[t] = "train" THEN "dead" ELSE loop_pc[t]]
    /\ UNCHANGED <<models, ever_trained, pass_results, provided, background_thread, provider, wait_left, pass_ids, next_tid,
                   genVars, cacheVars, batchVars, tallyVars, fgVars>>

\* stop_background_training, lines 464-465: set the event; join if alive
StopBackgroundTraining(c) ==
    /\ caller_pc[c] = "idle"
    /\ stop_event' = TRUE
    /\ Logged("stop")
    /\ caller_pc' = [caller_pc EXCEPT ![c] = IF HandleAlive THEN "join" ELSE "idle"]
    /\ UNCHANGED <<models, ever_trained, pass_results, provided, background_thread, loop_pc, provider, wait_left, pass_ids, next_tid,
                   genVars, cacheVars, batchVars, tallyVars, fgVars>>

\* join(timeout=1.0) returns: the thread ended or the second elapsed
StopJoinReturn(c) ==
    /\ caller_pc[c] = "join"
    /\ caller_pc' = [caller_pc EXCEPT ![c] = "idle"]
    /\ UNCHANGED <<models, ever_trained, pass_results, provided, background_thread, stop_event, loop_pc, provider, wait_left, pass_ids,
                   next_tid, last_call, prev_call,
                   genVars, cacheVars, batchVars, tallyVars, fgVars>>

\* What _load_precomputed_data can read from user_preferences.pkl
LoadedPreferences ==
    {<<>>,
     << <<"u2", AnalyzeUserPreferences(StoreUsers["u2"])>>,
        <<"u3", EmptyPreferenceAnalysis>> >>}

Init ==
    /\ GenIdle
    /\ BatchIdle
    /\ TallyIdle
    /\ PipelineIdle
    /\ ForegroundIdle
    /\ food_frequency = <<>>
    /\ user_preferences \in LoadedPreferences
    /\ nutrition_patterns = <<>>
    /\ cache_lock = "free"
    /\ saved_files = [food_frequency |-> <<>>, user_preferences |-> user_preferences,
                      nutrition_patterns |-> <<>>, save_failed |-> FALSE]

\* The client of Spec
Client == "c1"

Next ==
    \/ \E p \in {"none", "given"} : StartBackgroundTraining(Client, p)
    \/ CallersIdle /\ StopBackgroundTraining(Client)
    \/ StopJoinReturn(Client)
    \/ \E t \in Threads : LoopStep(t)
    \/ Tick

Spec == Init /\ [][Next]_vars

\* The scheduler runs every live loop thread; nothing obliges time to pass
\* or a client to call.
FairSpec == Spec /\ \A t \in Threads : WF_vars(LoopStep(t))

\* The same scheduler, and the clock of Event.wait(timeout) advances
FairTimeSpec == FairSpec /\ WF_vars(Tick)

\* C1: when start is called twice in succession and the loop started by the
\* first call is alive, the second call is a no-op: it creates no thread, it
\* leaves the stored handle alone, and there is exactly one live loop, the
\* one the handle names.
C1_SecondStartIsNoOp ==
    (prev_call = "start_spawned" /\ last_call \in {"start_spawned", "start_noop"}) =>
        /\ last_call = "start_noop"
        /\ next_tid = background_thread + 1
        /\ LiveLoops = {background_thread}

\* C1 witness: a second start has returned while the loop of the first is
\* in a training pass
C1_Witness ==
    /\ prev_call = "start_spawned"
    /\ last_call = "start_noop"
    /\ background_thread = 1
    /\ loop_pc[1] = "train"

\* C5, safety half: once the stop flag is set and a loop is in its wait or at
\* its loop test, the flag stays set and the loop goes nowhere but to its end,
\* so it starts no other training pass.
C5_NoNewPass ==
    [][\A t \in Threads :
          (stop_event /\ loop_pc[t] \in {"wait", "check"}) =>
              (stop_event' /\ loop_pc'[t] \in {"wait", "check", "dead"})]_vars

\* C5: a stop called while the loop is in its inter-cycle wait wakes the loop
\* (it ends whether or not the interval elapses) and the loop then terminates
\* without starting another training pass.
C5_StopWakesWait ==
    /\ C5_NoNewPass
    /\ \A t \in Threads : (stop_event /\ loop_pc[t] = "wait") ~> (loop_pc[t] = "dead")

\* C5 witness: after a stop the loop has ended with its interval untouched
C5_Witness ==
    /\ last_call = "stop"
    /\ stop_event
    /\ background_thread = 1
    /\ loop_pc[1] = "dead"
    /\ wait_left[1] = IntervalTicks

-----------------------------------------------------------------------------
(* SpecConc: start/stop called by client threads that interleave.          *)

\* Line 440: the test of the stored thread
StartCheck(c) ==
    /\ caller_pc[c] = "idle"
    /\ IF HandleAlive
       THEN Logged("start_noop") /\ UNCHANGED caller_pc
       ELSE caller_pc' = [caller_pc EXCEPT ![c] = "clear"] /\ UNCHANGED <<last_call, prev_call>>
    /\ UNCHANGED <<models, ever_trained, pass_results, provided, background_thread, stop_event, loop_pc, provider, wait_left, pass_ids,
                   next_tid, genVars, cacheVars, batchVars, tallyVars, fgVars>>

\* Line 443: self._stop_event.clear()
StartClear(c) ==
    /\ caller_pc[c] = "clear"
    /\ stop_event' = FALSE
    /\ caller_pc' = [caller_pc EXCEPT ![c] = "construct"]
    /\ UNCHANGED <<models, ever_trained, pass_results, provided, background_thread, loop_pc, provider, wait_left, pass_ids,
                   next_tid, last_call, prev_call,
                   genVars, cacheVars, batchVars, tallyVars, fgVars>>

\* Line 459: the Thread object is constructed and stored; it does not run yet.
\* The provider is the argument of the call, fixed here at the latest.
StartConstruct(c, user_ids_provider) ==
    /\ caller_pc[c] = "construct"
    /\ next_tid <= MaxThreads
    /\ background_thread' = next_tid
    /\ loop_pc' = [loop_pc EXCEPT ![next_tid] = "created"]
    /\ provider' = [provider EXCEPT ![next_tid] = user_ids_provider]
    /\ next_tid' = next_tid + 1
    /\ caller_pc' = [caller_pc EXCEPT ![c] = "start"]
    /\ UNCHANGED <<models, ever_trained, pass_results, provided, stop_event, wait_left, pass_ids, last_call, prev_call,
                   genVars, cacheVars, batchVars, tallyVars, fgVars>>

\* Line 460: self._background_thread.start() starts the thread stored now;
\* a thread started before raises RuntimeError.
StartThread(c) ==
    /\ caller_pc[c] = "start"
    /\ IF loop_pc[background_thread] = "created"
       THEN /\ loop_pc' = [loop_pc EXCEPT ![background_thread] = "check"]
            /\ Logged("start_spawned")
       ELSE /\ Logged("start_runtime_error")
            /\ UNCHANGED loop_pc
    /\ caller_pc' = [caller_pc EXCEPT ![c] = "idle"]
    /\ UNCHANGED <<models, ever_trained, pass_results, provided, background_thread, stop_event, provider, wait_left, pass_ids,
                   next_tid, genVars, cacheVars, batchVars, tallyVars, fgVars>>

NextConc ==
    \/ \E c \in Callers : StartCheck(c)
    \/ \E c \in Callers : StartClear(c)
    \/ \E c \in Callers, p \in {"none", "given"} : StartConstruct(c, p)
    \/ \E c \in Callers : StartThread(c)
    \/ \E c \in Callers : StopBackgroundTraining(c)
    \/ \E c \in Callers : StopJoinReturn(c)
    \/ \E t \in Threads : LoopStep(t)
    \/ Tick

SpecConc == Init /\ [][NextConc]_vars

\* C2: when client threads call start concurrently, at most one loop is
\* created and alive.
C2_AtMostOneLoop == Cardinality(LiveLoops) <= 1

-----------------------------------------------------------------------------
(* SpecPipe: foreground calls on the pipeline beside one background loop.  *)

\* _evaluate_rule
EvaluateRule(rule, user_data) ==
    IF rule.type = "popular_food" THEN TRUE
    ELSE IF rule.type = "gender_based" THEN user_data.profile.gender = "female"
    ELSE FALSE

\* A version of predict_recommendations without the test for a cached model.
PredictionUnguarded(ms, user_id) ==
    IF ~AppCoreInit(FALSE) THEN [raised |-> TRUE, list |-> <<>>]
    ELSE [raised |-> FALSE, list |-> <<>>]

\* predict_recommendations as a function of self.models and the user id: the
\* list returned, or raised.  The meal type is not read.
Prediction(ms, user_id) ==
    IF ms = <<>> THEN [raised |-> FALSE, list |-> <<>>]
    ELSE IF ~AppCoreInit(FALSE) THEN [raised |-> TRUE, list |-> <<>>]
    ELSE IF ~UserExists(user_id) THEN [raised |-> FALSE, list |-> <<>>]
    ELSE LET rules   == ms[1].recommendation_rules
             matched == SelectSeq(rules, LAMBDA r : EvaluateRule(r, StoreUsers[user_id]))
         IN  [raised |-> FALSE,
              list   |-> Take([i \in DOMAIN matched |->
                                 [food |-> matched[i].recommendation,
                                  confidence |-> matched[i].confidence,
                                  reason |-> matched[i].type]], 5)]

\* A call predict_recommendations(user_id, meal_type)
PredictRecommendations(user_id, mt) ==
    /\ LET r == Prediction(models, user_id)
       IN  /\ predict_outcome' = IF r.raised THEN "raised" ELSE "returned"
           /\ predictions' = r.list
    /\ predict_trained' = ever_trained
    /\ predict_user' = user_id
    /\ UNCHANGED <<train_calls, train_results, train_returned, export_outcome, export_user,
                   report_files, genVars, cacheVars, batchVars, tallyVars, bgVars>>

\* C11: predictRecommendations on a pipeline on which no training pass,
\* foreground or background, has completed returns an empty list and raises
\* nothing, for every user id and meal type.
C11_PredictBeforeTraining ==
    (predict_outcome # "none" /\ ~predict_trained) =>
        (predict_outcome = "returned" /\ predictions = <<>>)

\* C11 witness: a prediction was asked for and returned while the first
\* background pass was still in flight
C11_Witness ==
    /\ predict_outcome = "returned"
    /\ ~predict_trained
    /\ ~ever_trained
    /\ loop_pc[1] = "train"

MaxTrainCalls == 2

\* The id lists of the foreground training calls
TrainIdLists == {<<>>, <<"u1">>, <<"u3", "u1">>}

\* A version of the assignment that leaves self.models as it is.
KeepModels(ms, model_results) == ms

\* self.models['recommendation'] = model_results
StoreModel(ms, model_results) == <<model_results>>

\* A foreground call train_recommendation_model(user_ids): the batch, the
\* merge under the lock, the save, the features, the model, the assignment.
TrainRecommendationModel(ids) ==
    /\ train_calls < MaxTrainCalls
    /\ batch_pc = "idle"
    /\ cache_lock = "free"
    /\ \E order \in CompletionOrders(Len(ids)) :
          LET res   == BatchResults(ids, order)
              model == TrainSimpleRecommendationModel(ExtractFeatures(res))
          IN  /\ food_frequency' = UpdateFoodFrequency(food_frequency, res)
              /\ user_preferences' = UpdateUserPreferences(user_preferences, res)
              /\ nutrition_patterns' = UpdateNutritionPatterns(nutrition_patterns, res)
              /\ merged_total' = MergedTotalAfter(res)
              /\ train_results' = res
              /\ train_returned' = <<model>>
              /\ models' = StoreModel(models, model)
    /\ \E save_ok \in BOOLEAN :
          saved_files' = IF save_ok
                         THEN [food_frequency |-> food_frequency',
                               user_preferences |-> user_preferences',
                               nutrition_patterns |-> nutrition_patterns',
                               save_failed |-> FALSE]
                         ELSE [saved_files EXCEPT !.save_failed = TRUE]
    /\ ever_trained' = TRUE
    /\ train_calls' = train_calls + 1
    /\ UNCHANGED <<pass_results, provided, background_thread, stop_event, loop_pc, provider, wait_left, pass_ids,
                   next_tid, caller_pc, last_call, prev_call,
                   predict_outcome, predict_trained, predictions, predict_user, export_outcome, export_user,
                   report_files, cache_lock, popular, popular_limit, genVars, batchVars>>

\* A version of the export that writes an empty report for a user it cannot
\* read.
ExportOutcomeLenient(user_id) == "returned"

\* export_analysis_report: AppCore() and a missing user raise inside the try,
\* the handler logs and re-raises; the file is written only after the report
\* is built.
ExportOutcome(user_id) ==
    IF ~AppCoreInit(FALSE) THEN "raised"
    ELSE IF ~UserExists(user_id) THEN "raised"
    ELSE "returned"

\* A call export_analysis_report(user_id)
ExportAnalysisReport(user_id) ==
    /\ export_outcome' = ExportOutcome(user_id)
    /\ export_user' = user_id
    /\ report_files' = IF export_outcome' = "returned" THEN report_files \cup {user_id}
                       ELSE report_files
    /\ UNCHANGED <<train_calls, train_results, train_returned, predict_outcome, predict_trained,
                   predictions, predict_user, genVars, cacheVars, batchVars, tallyVars, bgVars>>

NextPipe ==
    \/ \E ids \in TrainIdLists : TrainRecommendationModel(ids)
    \/ \E u \in Users, mt \in MealTypes : PredictRecommendations(u, mt)
    \/ \E u \in Users : ExportAnalysisReport(u)
    \/ \E p \in {"none", "given"} : StartBackgroundTraining(Client, p)
    \/ \E t \in Threads : LoopStep(t)
    \/ Tick

SpecPipe == Init /\ [][NextPipe]_vars

\* C13: exportAnalysisReport for a user id that is not in the store
\* propagates an error to its caller, writes no report file for it, and
\* leaves the three caches as they were.
C13_ExportMissingUser ==
    /\ []((export_outcome # "none" /\ ~UserExists(export_user)) =>
             (export_outcome = "raised" /\ export_user \notin report_files))
    /\ [][(export_outcome' # export_outcome \/ export_user' # export_user) =>
             UNCHANGED <<food_frequency, user_preferences, nutrition_patterns, saved_files>>]_vars

\* C13 witness: the export for the absent user u3 raised, with loaded caches
C13_Witness ==
    /\ export_outcome = "raised"
    /\ export_user = "u3"
    /\ ~UserExists("u3")
    /\ user_preferences # <<>>
    /\ report_files = {}

\* C20: when trainRecommendationModel returns, the cached model is the model
\* the call returned and nothing else; its user count, food count and rules
\* are computed from the batch results of that call alone, and a batch in
\* which every user failed gives user count 0 and no rule.
C20_ModelReplacedWholesale ==
    [][train_calls' # train_calls =>
          /\ models' = train_returned'
          /\ train_returned' = <<TrainSimpleRecommendationModel(ExtractFeatures(train_results'))>>
          /\ (\A i \in DOMAIN train_results' : IsError(train_results'[i][2])) =>
                 (models'[1].user_count = 0 /\ models'[1].recommendation_rules = <<>>)]_vars

\* C20 witness: a second training call has returned, over a batch of two
\* users, after a background pass had already cached a model
C20_Witness ==
    /\ train_calls = 2
    /\ Len(train_results) = 2
    /\ models = train_returned
    /\ loop_pc[1] = "wait"

\* C12: stopBackgroundTraining on a pipeline on which no loop was ever
\* started returns at once (it never joins), creates no thread and changes
\* neither the cached model nor the caches; a start that follows it starts a
\* loop that runs with the stop flag cleared.
C12_StopWithoutLoop ==
    /\ (last_call = "stop" /\ next_tid = 1) =>
          /\ caller_pc[Client] = "idle"
          /\ background_thread = 0
          /\ LiveLoops = {}
          /\ models = <<>>
          /\ food_frequency = <<>> /\ nutrition_patterns = <<>>
          /\ user_preferences = saved_files.user_preferences
    /\ (prev_call = "stop" /\ last_call = "start_spawned" /\ next_tid = 2) =>
          /\ ~stop_event
          /\ background_thread = 1
          /\ Alive(1)

\* C12 witness: after a stop without a loop and then a start, the loop has
\* reached a training pass
C12_Witness ==
    /\ prev_call = "stop"
    /\ last_call = "start_spawned"
    /\ next_tid = 2
    /\ loop_pc[1] = "train"

-----------------------------------------------------------------------------
(* SpecOverlap: a foreground batch, step by step, beside a background pass *)
(* whose merge is split at the lock.                                       *)

\* A version of the merge that does not wait for the lock.
LoopMergeAcquireUnlocked(t) ==
    /\ loop_pc[t] = "train"
    /\ cache_lock' = "loop"
    /\ \E order \in CompletionOrders(Len(pass_ids[t])) :
          LET res == BatchResults(pass_ids[t], order)
          IN  /\ pass_results' = [pass_results EXCEPT ![t] = res]
              /\ food_frequency' = UpdateFoodFrequency(food_frequency, res)
              /\ user_preferences' = UpdateUserPreferences(user_preferences, res)
              /\ nutrition_patterns' = UpdateNutritionPatterns(nutrition_patterns, res)
              /\ merged_total' = MergedTotalAfter(res)
    /\ loop_pc' = [loop_pc EXCEPT ![t] = "merging"]
    /\ UNCHANGED <<models, ever_trained, provided, background_thread, stop_event, provider, wait_left,
                   pass_ids, next_tid, caller_pc, last_call, prev_call, saved_files,
                   popular, popular_limit, genVars, batchVars, fgVars>>

\* The batch of a background pass has collected its results (lines 96-111)
\* and _update_precomputed_data enters `with self.cache_lock` and runs its
\* three loops (lines 278-308)
LoopMergeAcquire(t) ==
    /\ loop_pc[t] = "train"
    /\ cache_lock = "free"
    /\ cache_lock' = "loop"
    /\ \E order \in CompletionOrders(Len(pass_ids[t])) :
          LET res == BatchResults(pass_ids[t], order)
          IN  /\ pass_results' = [pass_results EXCEPT ![t] = res]
              /\ food_frequency' = UpdateFoodFrequency(food_frequency, res)
              /\ user_preferences' = UpdateUserPreferences(user_preferences, res)
              /\ nutrition_patterns' = UpdateNutritionPatterns(nutrition_patterns, res)
              /\ merged_total' = MergedTotalAfter(res)
    /\ loop_pc' = [loop_pc EXCEPT ![t] = "merging"]
    /\ UNCHANGED <<models, ever_trained, provided, background_thread, stop_event, provider, wait_left,
                   pass_ids, next_tid, caller_pc, last_call, prev_call, saved_files,
                   popular, popular_limit, genVars, batchVars, fgVars>>

\* Lines 310-311: _save_precomputed_data, then the lock is released
LoopMergeRelease(t) ==
    /\ loop_pc[t] = "merging"
    /\ \E save_ok \in BOOLEAN :
          saved_files' = IF save_ok
                         THEN [food_frequency |-> food_frequency,
                               user_preferences |-> user_preferences,
                               nutrition_patterns |-> nutrition_patterns,
                               save_failed |-> FALSE]
                         ELSE [saved_files EXCEPT !.save_failed = TRUE]
    /\ cache_lock' = "free"
    /\ loop_pc' = [loop_pc EXCEPT ![t] = "store"]
    /\ UNCHANGED <<models, ever_trained, pass_results, provided, background_thread, stop_event, provider,
                   wait_left, pass_ids, next_tid, caller_pc, last_call, prev_call,
                   food_frequency, user_preferences, nutrition_patterns,
                   genVars, batchVars, tallyVars, fgVars>>

\* Lines 425-431, then the loop enters its wait
LoopStoreModel(t) ==
    /\ loop_pc[t] = "store"
    /\ models' = <<TrainSimpleRecommendationModel(ExtractFeatures(pass_results[t]))>>
    /\ ever_trained' = TRUE
    /\ pass_ids' = [pass_ids EXCEPT ![t] = <<>>]
    /\ pass_results' = [pass_results EXCEPT ![t] = <<>>]
    /\ provided' = [provided EXCEPT ![t] = NoProvided]
    /\ loop_pc' = [loop_pc EXCEPT ![t] = "wait"]
    /\ wait_left' = [wait_left EXCEPT ![t] = IntervalTicks]
    /\ UNCHANGED <<background_thread, stop_event, provider, next_tid, caller_pc, last_call,
                   prev_call, genVars, cacheVars, batchVars, tallyVars, fgVars>>

NextOverlap ==
    \/ \E ids \in TrainIdLists : BatchSubmit(ids)
    \/ \E i \in DOMAIN futures : WorkerStart(i)
    \/ \E i \in DOMAIN futures : WorkerFinish(i)
    \/ \E i \in DOMAIN futures : CollectResult(i)
    \/ MergeFoodFrequency
    \/ MergeUserPreferences
    \/ MergeNutritionAndSave
    \/ BatchReturn
    \/ \E p \in {"none", "given"} : StartBackgroundTraining(Client, p)
    \/ \E t \in Threads : LoopCheck(t)
    \/ \E t \in Threads : LoopResolveIds(t)
    \/ \E t \in Threads : LoopMergeAcquire(t)
    \/ \E t \in Threads : LoopMergeRelease(t)
    \/ \E t \in Threads : LoopStoreModel(t)
    \/ \E t \in Threads : LoopWaitReturn(t)
    \/ Tick

SpecOverlap == Init /\ [][NextOverlap]_vars

\* The foreground batch is inside its merge step
ForegroundMerging == batch_pc \in {"merge_prefs", "merge_nutrition"}

\* The background passes inside their merge step
BackgroundMerging == {t \in Threads : loop_pc[t] = "merging"}

\* C15: the three caches and their files are written only by a merge step
\* holding the cache mutex, never by a worker task, and the merge-and-persist
\* steps of a foreground batch and of a background pass never overlap.
C15_MergeUnderMutex ==
    /\ [](/\ ~(ForegroundMerging /\ BackgroundMerging # {})
          /\ Cardinality(BackgroundMerging) <= 1
          /\ ForegroundMerging => cache_lock = "batch"
          /\ BackgroundMerging # {} => cache_lock = "loop")
    /\ [][(<<food_frequency, user_preferences, nutrition_patterns, saved_files>>' #
           <<food_frequency, user_preferences, nutrition_patterns, saved_files>>) =>
             (cache_lock # "free" \/ cache_lock' # "free")]_vars

\* C15 witness: the foreground batch holds the mutex in its merge while a
\* background pass has its batch ready and waits for it
C15_Witness ==
    /\ ForegroundMerging
    /\ cache_lock = "batch"
    /\ loop_pc[1] = "train"
    /\ Len(user_ids) = 2

-----------------------------------------------------------------------------
(* SpecMerge: _update_precomputed_data applied to result dicts drawn from  *)
(* a bounded set, populated records included.                              *)

\* A populated record as _process_single_user builds it at lines 140-151; the
\* record of u3 stands for a user the store would hold
PopulatedResult(user_id) ==
    IF UserExists(user_id)
    THEN [error |-> NoError, user_id |-> user_id,
          meal_analysis |-> AnalyzeMealPatterns(StoreUsers[user_id].meals),
          preference_analysis |-> AnalyzeUserPreferences(StoreUsers[user_id])]
    ELSE [error |-> NoError, user_id |-> user_id,
          meal_analysis |-> [favorite_foods |-> <<"milk">>, avg_satisfaction |-> 300,
                             avg_calories |-> 15000, food_diversity |-> 1],
          preference_analysis |-> [gender |-> "female", activity_level |-> "low"]]

MaxMergeUsers == 2

\* Merges in a row in SpecMerge
MaxMerges == 1

\* The result dicts: up to MaxMergeUsers different users, in any order, each
\* with a populated record or an error value
ResultDicts ==
    UNION { {[i \in DOMAIN ids |-> <<ids[i], IF ok[i] THEN PopulatedResult(ids[i])
                                             ELSE ErrorResult("failed")>>] :
                ok \in [DOMAIN ids -> BOOLEAN]} :
            ids \in {l \in DistinctIdLists : Len(l) <= MaxMergeUsers} }

InitMerge ==
    /\ GenIdle
    /\ BatchIdle
    /\ PipelineIdle
    /\ ForegroundIdle
    /\ food_frequency \in {<<>>, << <<"egg", 2>>, <<"rice", 1>> >>}
    /\ user_preferences \in LoadedPreferences
    /\ nutrition_patterns \in {<<>>, << <<"u2", [avg_calories |-> 100, avg_satisfaction |-> 100,
                                                  food_diversity |-> 3]>> >>}
    /\ cache_lock = "free"
    /\ saved_files = [food_frequency |-> food_frequency, user_preferences |-> user_preferences,
                      nutrition_patterns |-> nutrition_patterns, save_failed |-> FALSE]
    /\ merged_total = [f \in TallyFoods |-> DictGet(food_frequency, f, 0)]
    /\ popular = <<>>
    /\ popular_limit = -1

\* _update_precomputed_data(results) as one step, the save included
UpdatePrecomputedData(res) ==
    /\ batches_run < MaxMerges
    /\ cache_lock = "free"
    /\ batches_run' = batches_run + 1
    /\ results' = res
    /\ food_frequency' = UpdateFoodFrequency(food_frequency, res)
    /\ user_preferences' = UpdateUserPreferences(user_preferences, res)
    /\ nutrition_patterns' = UpdateNutritionPatterns(nutrition_patterns, res)
    /\ merged_total' = MergedTotalAfter(res)
    /\ \E save_ok \in BOOLEAN :
          saved_files' = IF save_ok
                         THEN [food_frequency |-> food_frequency',
                               user_preferences |-> user_preferences',
                               nutrition_patterns |-> nutrition_patterns',
                               save_failed |-> FALSE]
                         ELSE [saved_files EXCEPT !.save_failed = TRUE]
    /\ UNCHANGED <<cache_lock, batch_pc, user_ids, futures, returned, popular, popular_limit,
                   genVars, bgVars, fgVars>>

NextMerge == \E res \in ResultDicts : UpdatePrecomputedData(res)

SpecMerge == InitMerge /\ [][NextMerge]_vars

\* The value of key k in dict d, as a sequence of zero or one element
Entry(d, k) == [i \in 1..Cardinality({j \in DOMAIN d : d[j][1] = k}) |->
                    d[CHOOSE j \in DOMAIN d : d[j][1] = k][2]]

\* C16: the merge step adds 1 to the count of each food for each non-error
\* user that lists it among its favourites, replaces the preference and
\* nutrition entries of exactly those users by this batch's values, and leaves
\* every other count and entry as it was; no count drops, no entry goes.
C16_MergeEffect ==
    [][batches_run' # batches_run =>
        LET good == {i \in DOMAIN results' : ~IsError(results'[i][2])}
            Favs(i) == results'[i][2].meal_analysis.favorite_foods
            Row(u) == CHOOSE i \in good : results'[i][1] = u
        IN  /\ \A f \in TallyFoods :
                  DictGet(food_frequency', f, 0) =
                      DictGet(food_frequency, f, 0) + Cardinality({i \in good : f \in Range(Favs(i))})
            /\ DictKeys(food_frequency) \subseteq DictKeys(food_frequency')
            /\ DictKeys(food_frequency') \subseteq TallyFoods
            /\ \A u \in Users :
                  IF \E i \in good : results'[i][1] = u
                  THEN /\ Entry(user_preferences', u) = <<results'[Row(u)][2].preference_analysis>>
                       /\ Entry(nutrition_patterns', u) =
                            <<[avg_calories     |-> results'[Row(u)][2].meal_analysis.avg_calories,
                               avg_satisfaction |-> results'[Row(u)][2].meal_analysis.avg_satisfaction,
                               food_diversity   |-> results'[Row(u)][2].meal_analysis.food_diversity]>>
                  ELSE /\ Entry(user_preferences', u) = Entry(user_preferences, u)
                       /\ Entry(nutrition_patterns', u) = Entry(nutrition_patterns, u)]_vars

\* C16 witness: a merge of a populated u1 and a failed u2 over loaded caches:
\* rice went from 1 to 2, egg from 2 to 3, and the loaded entries of u2 stay
C16_Witness ==
    /\ batches_run = 1
    /\ Len(results) = 2
    /\ ~IsError(DictGet(results, "u1", ErrorResult("absent")))
    /\ IsError(DictGet(results, "u2", PopulatedResult("u2")))
    /\ DictGet(food_frequency, "rice", 0) = 2
    /\ DictGet(food_frequency, "egg", 0) = 3
    /\ Entry(nutrition_patterns, "u2") = <<[avg_calories |-> 100, avg_satisfaction |-> 100,
                                            food_diversity |-> 3]>>
    /\ Entry(user_preferences, "u1") # <<>>

\* The ids an iteration of loop t resolves to, from what its provider
\* returned: the provider's list when there is a provider and the list is not
\* empty, the keys of the preference cache otherwise
C19_Resolved(t, list) ==
    IF provider[t] = "given" /\ list # <<>> THEN list ELSE PreferenceKeys

\* C19: in every iteration of the background loop in which nothing raises,
\* the ids are the provider's list when a provider is given and its list is
\* not empty, and the keys of the preference cache otherwise; the iteration
\* runs a training pass, over exactly these ids, if and only if they are not
\* empty; the wait over the whole interval follows the pass and follows the
\* iteration without a pass.
C19_ResolveTrainWait ==
    [][\A t \in Threads :
          /\ (loop_pc[t] = "resolve" /\ loop_pc'[t] # "resolve" /\ ~provided'[t].raised) =>
                LET resolved == C19_Resolved(t, provided'[t].list)
                IN  /\ (loop_pc'[t] = "train") <=> (resolved # <<>>)
                    /\ (loop_pc'[t] = "train") => (pass_ids'[t] = resolved)
                    /\ (loop_pc'[t] # "train") =>
                          (loop_pc'[t] = "wait" /\ wait_left'[t] = IntervalTicks /\ models' = models)
          /\ (loop_pc[t] = "train" /\ loop_pc'[t] # "train") =>
                (loop_pc'[t] = "wait" /\ wait_left'[t] = IntervalTicks)
          /\ (loop_pc'[t] = "train" /\ loop_pc[t] # "train") => (loop_pc[t] = "resolve")]_vars

\* C19 witness: a provider that returned an empty list, a preference cache
\* with keys, and the pass about to run over these keys
C19_Witness ==
    /\ loop_pc[1] = "train"
    /\ provider[1] = "given"
    /\ provided[1] = [raised |-> FALSE, list |-> <<>>]
    /\ pass_ids[1] = PreferenceKeys
    /\ pass_ids[1] # <<>>

\* C17: an exception raised in an iteration of the background loop, by the
\* provider or by the training pass, does not end the loop: the step that
\* raises takes the loop into its wait over the whole interval; a loop ends
\* only at its loop test and only with the stop flag set; and from the wait
\* after an exception the loop starts another iteration unless stop has been
\* requested.
C17_ExceptionKeepsLoop ==
    /\ [][\A t \in Threads :
             (provided'[t].raised /\ ~provided[t].raised) =>
                 (loop_pc'[t] = "wait" /\ wait_left'[t] = IntervalTicks)]_vars
    /\ [][\A t \in Threads :
             (loop_pc'[t] = "dead" /\ loop_pc[t] # "dead") =>
                 (loop_pc[t] = "check" /\ stop_event)]_vars
    /\ \A t \in Threads :
          (provided[t].raised /\ loop_pc[t] = "wait") ~> (loop_pc[t] = "resolve" \/ stop_event)

\* C17 witness: a provider raised in the first loop, the loop has waited its
\* interval out and no stop was requested
C17_Witness ==
    /\ provided[1].raised
    /\ provider[1] = "given"
    /\ loop_pc[1] = "wait"
    /\ wait_left[1] = 0
    /\ ~stop_event
    /\ last_call = "start_spawned"

\* The effect of a completed pass of loop t: the three caches are merged
\* with the results of the batch over the ids of the pass, in some order of
\* completion, and the cached model is the one trained from these results
C18_PassTookEffect(t) ==
    \E order \in CompletionOrders(Len(pass_ids[t])) :
       LET res == BatchResults(pass_ids[t], order)
       IN  /\ food_frequency' = UpdateFoodFrequency(food_frequency, res)
           /\ user_preferences' = UpdateUserPreferences(user_preferences, res)
           /\ nutrition_patterns' = UpdateNutritionPatterns(nutrition_patterns, res)
           /\ models' = <<TrainSimpleRecommendationModel(ExtractFeatures(res))>>
           /\ ever_trained'

\* C18: a stop that arrives while a training pass of the background loop is
\* in flight does not interrupt the pass.  While the flag is set and the pass
\* runs, the loop stays in the pass until the pass ends by itself; a pass
\* that ends without raising has merged its results and replaced the model;
\* the join of stop can return whatever the loop does, so stop returns with
\* the loop alive; and the loop then comes to its end, and (between the end
\* of the pass and the end of the loop) it starts no other pass.
C18_StopDoesNotPreempt ==
    /\ [][\A t \in Threads :
             (stop_event /\ loop_pc[t] = "train") =>
                 /\ stop_event'
                 /\ loop_pc'[t] \in {"train", "wait"}
                 /\ (loop_pc'[t] = "wait" /\ ~provided'[t].raised) => C18_PassTookEffect(t)]_vars
    /\ [](caller_pc[Client] = "join" => ENABLED StopJoinReturn(Client))
    /\ [][\A t \in Threads :
             (stop_event /\ loop_pc[t] \in {"wait", "check"}) => loop_pc'[t] # "train"]_vars
    /\ \A t \in Threads : (stop_event /\ loop_pc[t] = "train") ~> (loop_pc[t] = "dead")

\* C18 witness: stop has returned, the loop it was to stop is alive and still
\* inside the pass that was in flight when stop was called
C18_Witness ==
    /\ last_call = "stop"
    /\ caller_pc[Client] = "idle"
    /\ stop_event
    /\ background_thread = 1
    /\ loop_pc[1] = "train"
    /\ ~ever_trained

-----------------------------------------------------------------------------
(* SpecRules: the features and the rules of train_recommendation_model,    *)
(* applied to processed data drawn from a bounded set.                     *)

\* Users in the drawn processed data
MaxRuleUsers == 11

RuleUserIds == <<"r1", "r2", "r3", "r4", "r5", "r6", "r7", "r8", "r9", "r10", "r11", "r12", "r13">>

RuleOwnFoods == <<"f1", "f2", "f3", "f4", "f5", "f6", "f7", "f8", "f9", "f10", "f11", "f12", "f13">>

\* A populated record as _process_single_user builds it at lines 140-151, for
\* the i-th user: every user likes rice and a food of its own, every third
\* one egg as well; the odd ones are women
RuleUserResult(i) ==
    [error |-> NoError, user_id |-> RuleUserIds[i],
     meal_analysis |-> [favorite_foods   |-> IF i % 3 = 0 THEN <<"egg", RuleOwnFoods[i], "rice">>
                                             ELSE <<"rice", RuleOwnFoods[i]>>,
                        avg_satisfaction |-> 300, avg_calories |-> 15000,
                        food_diversity   |-> IF i % 3 = 0 THEN 3 ELSE 2],
     preference_analysis |-> [gender |-> IF i % 2 = 1 THEN "female" ELSE "male",
                              activity_level |-> "moderate"]]

\* The processed data: the first n users in this order or the reverse, each
\* with its populated record or an error value
RuleResultDicts(n) ==
    { [k \in 1..n |-> LET i == IF rev THEN n + 1 - k ELSE k
                      IN  <<RuleUserIds[i], IF ok[i] THEN RuleUserResult(i)
                                            ELSE ErrorResult("failed")>>] :
         ok \in [1..n -> BOOLEAN], rev \in BOOLEAN }

InitRules ==
    /\ GenIdle
    /\ CachesEmpty
    /\ BatchIdle
    /\ TallyIdle
    /\ PipelineIdle
    /\ train_calls = 0
    /\ \E n \in 0..MaxRuleUsers : train_results \in RuleResultDicts(n)
    /\ train_returned = <<>>
    /\ predict_outcome = "none"
    /\ predict_trained = FALSE
    /\ predictions = <<>>
    /\ predict_user = ""
    /\ export_outcome = "none"
    /\ export_user = ""
    /\ report_files = {}

\* Lines 424-431 of train_recommendation_model: the features of the processed
\* data, the model, the assignment to self.models
ExtractAndTrain ==
    /\ train_calls = 0
    /\ LET model == TrainSimpleRecommendationModel(ExtractFeatures(train_results))
       IN  /\ train_returned' = <<model>>
           /\ models' = StoreModel(models, model)
    /\ train_calls' = 1
    /\ ever_trained' = TRUE
    /\ UNCHANGED <<train_results, pass_results, provided, background_thread, stop_event, loop_pc, provider,
                   wait_left, pass_ids, next_tid, caller_pc, last_call, prev_call,
                   predict_outcome, predict_trained, predictions, predict_user, export_outcome, export_user,
                   report_files, genVars, cacheVars, batchVars, tallyVars>>

NextRules == ExtractAndTrain

SpecRules == InitRules /\ [][NextRules]_vars

\* The users of the processed data that were processed without error
C21_Good == {i \in DOMAIN train_results : ~IsError(train_results[i][2])}

\* The popularity count of a food: the successfully processed users whose
\* favourite foods contain it
C21_Count(f) ==
    Cardinality({i \in C21_Good : f \in Range(train_results[i][2].meal_analysis.favorite_foods)})

C21_Foods ==
    UNION {Range(train_results[i][2].meal_analysis.favorite_foods) : i \in C21_Good}

\* C21: the rules of a trained model are popular_food rules, one for each of
\* the min(10, number of foods) foods with the highest popularity counts, in
\* non-increasing order of count, each with confidence min(count / 10, 1.0)
\* (times 100 here), where count is the number of successfully processed
\* users with the food among their favourites; then one gender_based rule of
\* confidence 0.8 for each successfully processed female user; nothing else.
C21_RuleList ==
    train_calls = 1 =>
        LET rules   == models[1].recommendation_rules
            np      == Min2(10, Cardinality(C21_Foods))
            women   == {i \in C21_Good : train_results[i][2].preference_analysis.gender = "female"}
            chosen  == {rules[k].recommendation : k \in 1..np}
        IN  /\ Len(rules) = np + Cardinality(women)
            /\ \A k \in 1..np :
                  /\ rules[k].type = "popular_food"
                  /\ rules[k].recommendation \in C21_Foods
                  /\ rules[k].confidence = Min2(C21_Count(rules[k].recommendation) * 10, 100)
                  /\ \A j \in 1..np : rules[j].recommendation = rules[k].recommendation => j = k
                  /\ \A j \in (k + 1)..np :
                        C21_Count(rules[k].recommendation) >= C21_Count(rules[j].recommendation)
            /\ \A f \in C21_Foods \ chosen, g \in chosen : C21_Count(g) >= C21_Count(f)
            /\ \A k \in (np + 1)..Len(rules) :
                  /\ rules[k].type = "gender_based"
                  /\ rules[k].confidence = 80
            /\ models[1].user_count = Cardinality(C21_Good)

\* C21 witness: eleven users processed, all like rice (confidence capped at
\* 1.0), more than ten foods so that only ten have a rule, and six women
C21_Witness ==
    /\ train_calls = 1
    /\ Cardinality(C21_Good) = 11
    /\ Cardinality(C21_Foods) > 10
    /\ Len(models[1].recommendation_rules) = 16
    /\ models[1].recommendation_rules[1] =
          [type |-> "popular_food", recommendation |-> "rice", confidence |-> 100]
    /\ models[1].recommendation_rules[11].type = "gender_based"

\* C22: with a cached model, predictRecommendations returns without raising;
\* for a user of the store the list has at most 5 entries, each made from a
\* rule that applies to the user (a popular_food rule, or a gender_based rule
\* when the profile's gender is female); for a user that is not in the store
\* the list is empty.
C22_PredictWithModel ==
    (predict_outcome # "none" /\ predict_trained) =>
        /\ predict_outcome = "returned"
        /\ Len(predictions) <= 5
        /\ UserExists(predict_user) =>
              \A i \in DOMAIN predictions :
                 \/ predictions[i].reason = "popular_food"
                 \/ /\ predictions[i].reason = "gender_based"
                    /\ StoreUsers[predict_user].profile.gender = "female"
        /\ ~UserExists(predict_user) => predictions = <<>>

\* The combinations of the given source in a list
C23_OfSource(combinations, source) == SelectSeq(combinations, LAMBDA c : c.source = source)

\* What the historical, personalized and similar-user strategies produced for
\* the last request, counted before deduplication
C23_Produced ==
    Len(HistoricalCombinations(meals, meal_type)) + Len(PersonalizedCombinations(meals, meal_type))
        + Len(SimilarUserCombinations(meals, meal_type))

C24_AfterStrategies ==
    LET first == StrategyCombinations(meals, meal_type)
    IN  DeduplicateAndRankCombinations(
            IF Len(first) < 3 THEN first \o TemplateCombinations(meal_type) ELSE first)

\* C24: for every meal-type value, a request whose list is empty after the
\* historical, personalized, similar-user and template strategies and the
\* deduplication returns 1 or 2 combinations, each of source fallback and of
\* personalization score 0.2; the returned list is never empty.
C24_StaticFallbackNonEmpty ==
    meal_type # "none" =>
        /\ recommendations # <<>>
        /\ (gen_path = "normal" /\ C24_AfterStrategies = <<>>) =>
              /\ Len(recommendations) \in {1, 2}
              /\ \A i \in DOMAIN recommendations :
                    /\ recommendations[i].source = "fallback"
                    /\ recommendations[i].personalization_score = 2

\* 0.4 * personalizationScore + 0.3 * nutritionScore + 0.3 * mean satisfaction
\* baseline of the foods, times 100
C25_Score(combo) ==
    4 * combo.personalization_score + 3 * combo.nutrition_score
        + 3 * (SumSeq([i \in DOMAIN combo.foods |-> combo.foods[i].satisfaction_score])
                  \div Len(combo.foods))

\* The combinations of the last request in the order the strategies
\* produced them
C25_Generated ==
    IF gen_path = "exception" THEN FallbackCombinations(meal_type)
    ELSE LET all == StrategyCombinations(meals, meal_type)
                       \o (IF template_ran THEN TemplateCombinations(meal_type) ELSE <<>>)
         IN  IF Deduplicate(all, {}) = <<>> THEN FallbackCombinations(meal_type) ELSE all

\* The place of the first occurrence of a combination in a list
C25_Place(combo, list) == MinOfSet({i \in DOMAIN list : list[i] = combo})

C25_SourceRank(source) ==
    CASE source = "historical"   -> 1
      [] source = "personalized" -> 2
      [] source = "similar_user" -> 3
      [] source = "template"     -> 4
      [] OTHER                   -> 5

\* C25: the list returned by generateMealCombinations has at most 5 entries,
\* each one a combination the strategies produced, in non-increasing order
\* of 0.4 * personalizationScore + 0.3 * nutritionScore + 0.3 * mean
\* satisfaction baseline; combinations of equal score are in the order in
\* which the strategies produced them, the order of the strategies' priority.
C25_RankedTopFive ==
    meal_type # "none" =>
        /\ Len(recommendations) <= 5
        /\ \A i \in DOMAIN recommendations : recommendations[i] \in Range(C25_Generated)
        /\ \A i, j \in DOMAIN recommendations :
              i < j =>
                 /\ C25_Score(recommendations[i]) >= C25_Score(recommendations[j])
                 /\ C25_Score(recommendations[i]) = C25_Score(recommendations[j]) =>
                       /\ C25_Place(recommendations[i], C25_Generated)
                             < C25_Place(recommendations[j], C25_Generated)
                       /\ C25_SourceRank(recommendations[i].source)
                             <= C25_SourceRank(recommendations[j].source)

\* C25 witness: three combinations returned, the personalized one ranked
\* before a historical one that was produced before it
C25_Witness ==
    /\ gen_path = "normal"
    /\ Len(recommendations) = 3
    /\ \E i, j \in DOMAIN recommendations :
          /\ i < j
          /\ recommendations[i].source = "personalized"
          /\ recommendations[j].source = "historical"
          /\ C25_Score(recommendations[i]) > C25_Score(recommendations[j])
          /\ C25_Place(recommendations[i], C25_Generated) > C25_Place(recommendations[j], C25_Generated)

\* C26: when the save at the end of a batch fails, nothing is raised to the
\* caller of batchProcessUserData: the step of the failed save takes the
\* call to its return with the lock released, the caches keep what the merge
\* steps of this batch wrote (the counts and preferences as merged, the
\* nutrition entries of this batch), the files keep what they held; the call
\* then returns its full result map, one entry per input id; and a later
\* batch can be submitted.
C26_SaveFailureSwallowed ==
    /\ [][(batch_pc = "merge_nutrition" /\ saved_files'.save_failed) =>
             /\ batch_pc' = "return"
             /\ cache_lock' = "free"
             /\ food_frequency' = food_frequency
             /\ user_preferences' = user_preferences
             /\ nutrition_patterns' = UpdateNutritionPatterns(nutrition_patterns, results)
             /\ results' = results
             /\ saved_files'.food_frequency = saved_files.food_frequency
             /\ saved_files'.user_preferences = saved_files.user_preferences
             /\ saved_files'.nutrition_patterns = saved_files.nutrition_patterns]_vars
    /\ [][(batch_pc = "return" /\ saved_files.save_failed) =>
             /\ batch_pc' = "done"
             /\ returned' = results
             /\ DictKeys(returned') = Range(user_ids)
             /\ UNCHANGED <<food_frequency, user_preferences, nutrition_patterns, cache_lock>>]_vars
    /\ [](batch_pc # "raised")
    /\ []((batch_pc = "done" /\ saved_files.save_failed /\ batches_run < MaxBatches) =>
             (cache_lock = "free" /\ ENABLED BatchSubmit(<<"u1">>)))

\* C26 witness: the save of the first batch failed, its call returned, and a
\* second batch, of two users, holds the lock and merges
C26_Witness ==
    /\ saved_files.save_failed
    /\ batches_run = 2
    /\ batch_pc = "merge_prefs"
    /\ cache_lock = "batch"
    /\ Len(results) = 2

\* C27: whenever startBackgroundTraining has returned and no stop has been
\* requested since, the loop the handle names is alive and the stop flag is
\* clear.
C27_StartLeavesLoopRunning ==
    (last_call \in {"start_spawned", "start_noop"} /\ caller_pc[Client] = "idle") =>
        (HandleAlive /\ ~stop_event)


-----------------------------------------------------------------------------
(* SpecRead: one _update_precomputed_data call, statement by statement, on *)
(* result dicts with populated records, and get_popular_foods calls from   *)
(* other threads.                                                          *)

\* batch_process_user_data at line 114: every task is collected, the dict
\* results is res, and _update_precomputed_data(results) is called
UpdateCalled(res) ==
    /\ batch_pc \in {"idle", "done"}
    /\ batches_run < MaxMerges
    /\ batches_run' = batches_run + 1
    /\ results' = res
    /\ batch_pc' = "collect"
    /\ UNCHANGED <<user_ids, futures, returned, genVars, cacheVars, tallyVars, bgVars, fgVars>>

\* get_popular_foods takes no lock (lines 313-315): PopularFoodsQuery has no
\* guard on cache_lock
NextRead ==
    \/ \E res \in ResultDicts : UpdateCalled(res)
    \/ MergeFoodFrequency
    \/ MergeUserPreferences
    \/ MergeNutritionAndSave
    \/ BatchReturn
    \/ \E limit \in 0..MaxLimit : PopularFoodsQuery(limit)

SpecRead == InitMerge /\ [][NextRead]_vars

\* The food counts of the merge in flight are added, for a user with
\* favourite foods, and its preference or nutrition entries are not all
\* written yet
C28_PartlyMerged ==
    /\ batch_pc \in {"merge_prefs", "merge_nutrition"}
    /\ \E i \in DOMAIN results :
          /\ ~IsError(results[i][2])
          /\ results[i][2].meal_analysis.favorite_foods # <<>>
    /\ <<user_preferences, nutrition_patterns>> #
          <<UpdateUserPreferences(user_preferences, results),
            UpdateNutritionPatterns(nutrition_patterns, results)>>

-----------------------------------------------------------------------------
(* SpecRerun: batch_process_user_data run again and again on the same user *)
(* ids over an unchanged store, on result dicts with populated records.    *)

\* Runs in a row in SpecRerun
MaxRuns == 3

\* The same users with the same records: what a later run over the same ids
\* and the same store collects, in whatever order its tasks complete
SameEntries(res, earlier) ==
    /\ Len(res) = Len(earlier)
    /\ \A i \in DOMAIN res : \E j \in DOMAIN earlier : res[i] = earlier[j]

\* batch_process_user_data as one step from line 114 on: the first run merges
\* a result dict, every later run the entries of the first
RunBatchAgain(res) ==
    /\ batches_run < MaxRuns
    /\ batches_run > 0 => SameEntries(res, results)
    /\ cache_lock = "free"
    /\ batches_run' = batches_run + 1
    /\ results' = res
    /\ food_frequency' = UpdateFoodFrequency(food_frequency, res)
    /\ user_preferences' = UpdateUserPreferences(user_preferences, res)
    /\ nutrition_patterns' = UpdateNutritionPatterns(nutrition_patterns, res)
    /\ merged_total' = MergedTotalAfter(res)
    /\ \E save_ok \in BOOLEAN :
          saved_files' = IF save_ok
                         THEN [food_frequency |-> food_frequency',
                               user_preferences |-> user_preferences',
                               nutrition_patterns |-> nutrition_patterns',
                               save_failed |-> FALSE]
                         ELSE [saved_files EXCEPT !.save_failed = TRUE]
    /\ UNCHANGED <<cache_lock, batch_pc, user_ids, futures, returned, popular, popular_limit,
                   genVars, bgVars, fgVars>>

NextRerun == \E res \in ResultDicts : RunBatchAgain(res)

SpecRerun == InitMerge /\ [][NextRerun]_vars

\* The number of users of the result dict res that succeeded and have food f
\* among their favourites
C29_UsersWithFavourite(res, f) ==
    Cardinality({i \in DOMAIN res : /\ ~IsError(res[i][2])
                                    /\ f \in Range(res[i][2].meal_analysis.favorite_foods)})

\* C29: running the batch again on the same user ids over an unchanged store
\* leaves the preference and the nutrition cache as the run before left them,
\* and adds to the count of every food 1 for each successful user that has it
\* among its favourites; after n runs the count of a food is what was loaded
\* plus n times the number of these users, whatever the number of meals with it.
C29_RerunAddsToTallyOnly ==
    /\ [][batches_run' # batches_run =>
            /\ \A f \in TallyFoods :
                  DictGet(food_frequency', f, 0) =
                      DictGet(food_frequency, f, 0) + C29_UsersWithFavourite(results', f)
            /\ batches_run > 0 =>
                  /\ user_preferences' = user_preferences
                  /\ nutrition_patterns' = nutrition_patterns]_vars
    /\ [](\E loaded \in {<<>>, << <<"egg", 2>>, <<"rice", 1>> >>} :
             \A f \in TallyFoods :
                DictGet(food_frequency, f, 0) =
                    DictGet(loaded, f, 0) + batches_run * C29_UsersWithFavourite(results, f))


\* C29 witness: three runs over u1 and u2 from an empty tally: egg, a
\* favourite of both, stands at 6 and rice, a favourite of u1 alone, at 3,
\* with one preference and one nutrition entry per user
C29_Witness ==
    /\ batches_run = 3
    /\ Len(results) = 2
    /\ C29_UsersWithFavourite(results, "egg") = 2
    /\ C29_UsersWithFavourite(results, "rice") = 1
    /\ DictGet(food_frequency, "egg", 0) = 6
    /\ DictGet(food_frequency, "rice", 0) = 3
    /\ Len(user_preferences) = 2
    /\ Len(nutrition_patterns) = 2


\* C30: once stop_background_training has returned, and as long as
\* start_background_training is not called again, no background loop begins
\* a training pass: no loop goes from outside a pass into one.
C30_NoPassAfterStopReturned ==
    [][(last_call = "stop" /\ caller_pc[Client] = "idle" /\
        last_call' = "stop" /\ caller_pc'[Client] = "idle") =>
            \A t \in Threads : (loop_pc'[t] = "train") => (loop_pc[t] = "train")]_vars

=========================================================================
